---- MODULE Spec2Model ----
(***************************************************************************)
(* A model of the stock-portfolio dashboard: the market data gateway      *)
(* (stock_data.py), the portfolio store (portfolio_manager.py with its    *)
(* flat-file and relational backends, supabase_manager.py and             *)
(* database_manager.py) and the valuation of app.py.                      *)
(*                                                                         *)
(* Python values are modelled as follows.                                  *)
(*   None            the empty sequence <<>>; a present value v is <<v>>   *)
(*   dict            a sequence of <<key, value>> pairs in insertion order *)
(*                   (the caches, never iterated, are functions)           *)
(*   datetime        [kind |-> "datetime", t |-> instant]                  *)
(*   its isoformat   [kind |-> "str", t |-> instant]                       *)
(*   float           an exact rational <<numerator, denominator>> in       *)
(*                   lowest terms; IEEE-754 rounding is not modelled       *)
(***************************************************************************)
EXTENDS Integers, Sequences, FiniteSets, Bags, TLC

VARIABLES
    now,            \* datetime.now(), in seconds
    price_cache,    \* StockDataManager.price_cache: symbol -> (price, timestamp)
    data_cache,     \* StockDataManager.data_cache: (symbol, period) -> (bars, timestamp)
    gw,             \* the last gateway call and what it returned
    fetched,        \* per symbol, the last price obtained from the provider
    portfolios,     \* st.session_state.portfolios
    portfolios_file,\* the content of portfolios.json, None when there is no file
    db_portfolios,  \* the rows of table "portfolios"
    db_stocks,      \* the rows of table "stocks", a bag
    backup_file,    \* the content of portfolios.json.backup, None when absent
    use_supabase,   \* PortfolioManager.use_supabase
    ops,            \* how many store operations the run has performed
    last,           \* the last store operation and what it returned
    lots,           \* the lots added to one position so far, a bag
    view,           \* what the last valuation computed
    chart           \* what the last portfolio performance chart was drawn from

clockVars == <<now>>
cacheVars == <<price_cache, data_cache, gw, fetched>>
storeVars == <<portfolios, portfolios_file, backup_file, db_portfolios,
               db_stocks, use_supabase, ops, last, lots, view, chart>>
vars == <<now, price_cache, data_cache, gw, fetched, portfolios, portfolios_file,
          backup_file, db_portfolios, db_stocks, use_supabase, ops, last, lots,
          view, chart>>

None == <<>>
Some(v) == <<v>>

----------------------------------------------------------------------------
(* Bounds and domains *)

MaxDays == 1
MaxOps == 2
MaxLots == 3
Names == {"A", "B"}
Symbols == {"X", "Y"}
SymbolOrder == <<"X", "Y">>
GwSymbols == {"X", "Y"}
Prices == {10, 110}
TickSteps == {299, 300, 86400}
Instants == {0, 1}
SharesIn == {<<1, 1>>, <<2, 1>>}
AvgPricesIn == {<<2, 1>>, <<4, 1>>}
LotsIn == {<<<<10, 1>>, <<5, 1>>>>, <<<<10, 1>>, <<7, 1>>>>, <<<<1, 1>>, <<2, 1>>>>}
ValueSharesIn == {<<0, 1>>, <<10, 1>>}
ValueAvgPricesIn == {<<0, 1>>, <<100, 1>>}

(* Program constants *)
cache_duration == 300
SecondsPerDay == 86400

\* Calls are made within Window seconds after a whole number of days.
Window == 2 * cache_duration
Horizon == MaxDays * SecondsPerDay + Window

----------------------------------------------------------------------------
(* Market data gateway: stock_data.py *)

PriceFieldOrder == <<"regularMarketPrice", "currentPrice", "price", "ask", "bid">>

\* What the provider answers to one Ticker(symbol) query: .info is a dict of
\* price fields (a key may be absent, or present with None), .history("1d") a
\* sequence of daily closes, and either access may raise.
InfoNoPrice == [f \in {"price"} |-> None]
InfoQuote(p) == [f \in {"regularMarketPrice"} |-> Some(p)]
InfoBidOnly(p) == [f \in {"regularMarketPrice", "bid"} |->
                     IF f = "bid" THEN Some(p) ELSE None]

ProviderAnswers ==
    {[raise_at |-> "info", info |-> InfoNoPrice, hist |-> <<>>]}
    \cup {[raise_at |-> "history", info |-> InfoNoPrice, hist |-> <<>>]}
    \cup {[raise_at |-> "none", info |-> InfoNoPrice, hist |-> <<>>]}
    \cup {[raise_at |-> "none", info |-> InfoNoPrice, hist |-> <<p>>] : p \in Prices}
    \cup {[raise_at |-> "none", info |-> InfoQuote(p), hist |-> <<>>] : p \in Prices}
    \cup {[raise_at |-> "none", info |-> InfoBidOnly(p), hist |-> <<>>] : p \in Prices}

\* The answers a valuation is run against: an exception, no price, or a
\* quote.
ValuationAnswers ==
    {[raise_at |-> "info", info |-> InfoNoPrice, hist |-> <<>>]}
    \cup {[raise_at |-> "none", info |-> InfoNoPrice, hist |-> <<>>]}
    \cup {[raise_at |-> "none", info |-> InfoQuote(p), hist |-> <<>>] : p \in Prices}

\* What the provider would answer with no cache in the way (lines 24-38).
RECURSIVE FirstPrice(_, _)
FirstPrice(info, fields) ==
    IF fields = <<>> THEN None
    ELSE IF Head(fields) \in DOMAIN info /\ info[Head(fields)] # None
         THEN info[Head(fields)]
         ELSE FirstPrice(info, Tail(fields))

\* timedelta.seconds: the seconds field of the normalised (days, seconds)
\* pair, not the total number of seconds.
TimedeltaSeconds(delta) == delta % SecondsPerDay

CacheFresh_Minutes(timestamp, t) ==
    TimedeltaSeconds(t - timestamp) < cache_duration \div 60

\* line 20: (datetime.now() - timestamp).seconds < self.cache_duration
CacheFresh(timestamp, t) ==
    TimedeltaSeconds(t - timestamp) < cache_duration

\* get_current_price(symbol) at instant t, the provider answering ans:
\* the value returned, the cache afterwards, whether the provider was
\* queried, whether the except clause reported an error (lines 46-48), and
\* whether an exception leaves the call (the try covers the whole body).
GetCurrentPrice(cache, symbol, t, ans) ==
    IF symbol \in DOMAIN cache /\ CacheFresh(cache[symbol].timestamp, t)
    THEN [ret |-> Some(cache[symbol].price), cache |-> cache, queried |-> FALSE,
          error |-> FALSE, exc |-> FALSE]
    ELSE IF ans.raise_at = "info"
    THEN [ret |-> None, cache |-> cache, queried |-> TRUE, error |-> TRUE,
          exc |-> FALSE]
    ELSE LET quote == FirstPrice(ans.info, PriceFieldOrder) IN
         IF quote = None /\ ans.raise_at = "history"
         THEN [ret |-> None, cache |-> cache, queried |-> TRUE, error |-> TRUE,
          exc |-> FALSE]
         ELSE LET current_price ==
                      IF quote # None THEN quote
                      ELSE IF ans.hist # <<>> THEN Some(ans.hist[Len(ans.hist)])
                      ELSE None
              IN [ret |-> current_price,
                  cache |-> IF current_price # None
                            THEN (symbol :> [price |-> current_price[1],
                                             timestamp |-> t]) @@ cache
                            ELSE cache,
                  queried |-> TRUE, error |-> FALSE, exc |-> FALSE]

\* The price an uncached query would give (None when it raises).
Offered(ans) == GetCurrentPrice(<<>>, "X", 0, ans).ret

\* raised: the symbols the provider raised for during the call; exc:
\* whether an exception left the call.
NoCall == [op |-> "none", symbol |-> "", ret |-> None, queried |-> FALSE,
           offered |-> None, raised |-> {}, exc |-> FALSE]

GwInit ==
    /\ price_cache = <<>>
    /\ data_cache = <<>>
    /\ gw = NoCall
    /\ fetched = <<>>

\* One call of get_current_price(symbol) that the provider answers with ans
GetCurrentPriceOn(symbol, ans) ==
        LET r == GetCurrentPrice(price_cache, symbol, now, ans) IN
        /\ price_cache' = r.cache
        /\ gw' = [op |-> "get_current_price", symbol |-> symbol, ret |-> r.ret,
                  queried |-> r.queried, offered |-> Offered(ans),
                  raised |-> IF r.error THEN {symbol} ELSE {}, exc |-> r.exc]
        /\ data_cache' = data_cache
        /\ fetched' = IF r.queried /\ r.ret # None
                      THEN (symbol :> [price |-> r.ret[1], at |-> now]) @@ fetched
                      ELSE fetched
        /\ UNCHANGED <<clockVars, storeVars>>

GetCurrentPriceCall(symbol) ==
    \E ans \in ProviderAnswers : GetCurrentPriceOn(symbol, ans)

\* clear_cache (lines 165-168)
ClearCache ==
    /\ price_cache' = <<>>
    /\ data_cache' = <<>>
    /\ gw' = [NoCall EXCEPT !.op = "clear_cache"]
    /\ fetched' = <<>>
    /\ UNCHANGED <<clockVars, storeVars>>

\* Time passes between two calls.
Tick ==
    \E d \in TickSteps :
        /\ now + d <= Horizon
        /\ d < SecondsPerDay => (now % SecondsPerDay) + d <= Window
        /\ now' = now + d
        /\ UNCHANGED <<cacheVars, storeVars>>

----------------------------------------------------------------------------
(* Python values used by the portfolio store *)

\* A dict: a sequence of <<key, value>> pairs in insertion order.
DictKeys(d) == {d[i][1] : i \in DOMAIN d}
DictIndex(d, k) == CHOOSE i \in DOMAIN d : d[i][1] = k
DictGet(d, k) == d[DictIndex(d, k)][2]
DictSet(d, k, v) ==
    IF k \in DictKeys(d) THEN [d EXCEPT ![DictIndex(d, k)] = <<k, v>>]
    ELSE Append(d, <<k, v>>)
DictDel(d, k) == SelectSeq(d, LAMBDA e : e[1] # k)

\* datetime.now(), datetime.isoformat() and datetime.fromisoformat(): a
\* datetime and the ISO string of the same instant are different values.
Datetime(t) == [kind |-> "datetime", t |-> t]
Isoformat(x) == [kind |-> "str", t |-> x.t]
FromIsoformat(x) == [kind |-> "datetime", t |-> x.t]

\* A float, as an exact rational <<numerator, denominator>>, denominator > 0.
RECURSIVE GCD(_, _)
GCD(a, b) == IF b = 0 THEN a ELSE GCD(b, a % b)
Abs(a) == IF a < 0 THEN -a ELSE a
Rat(n, d) ==
    LET g == GCD(Abs(n), Abs(d))
        sgn == IF d < 0 THEN -1 ELSE 1
    IN <<sgn * (n \div g), sgn * (d \div g)>>
Num(k) == <<k, 1>>
RatAdd(x, y) == Rat(x[1] * y[2] + y[1] * x[2], x[2] * y[2])
RatSub(x, y) == Rat(x[1] * y[2] - y[1] * x[2], x[2] * y[2])
RatMul(x, y) == Rat(x[1] * y[1], x[2] * y[2])
RatDiv(x, y) == Rat(x[1] * y[2], x[2] * y[1])
RatLess(x, y) == x[1] * y[2] < y[1] * x[2]
Zero == Num(0)

----------------------------------------------------------------------------
(* Relational backend: supabase_manager.py (database_manager.py is the     *)
(* same code without the is_connected() guard).  A backend call runs in one *)
(* transaction: when anything raises, rollback() leaves the tables as they  *)
(* were and the call returns False.                                         *)

\* Row ids are never shown to the program; a new row gets the smallest id
\* not in use.
NewId(rows) == CHOOSE i \in 1..(Cardinality(rows) + 1) : \A r \in rows : r.id # i

\* query(...).filter(...).first()
First(rows) == IF rows = {} THEN None ELSE Some(CHOOSE r \in rows : TRUE)

PortfolioByName(dbp, name) == First({r \in dbp : r.name = name})
StockRows(dbs, pid, symbol) ==
    {r \in BagToSet(dbs) : r.portfolio_id = pid /\ r.symbol = symbol}
\* query(Stock).filter(Stock.portfolio_id == id).delete()
WithoutStocksOf(dbs, pid) ==
    LET keep == {r \in BagToSet(dbs) : r.portfolio_id # pid}
    IN [r \in keep |-> dbs[r]]
\* Stock(symbol=, shares=, avg_price=, portfolio_id=); last_updated takes
\* the column default, the instant of the insert.
Stock(symbol, shares, avg_price, portfolio_id, t) ==
    [symbol |-> symbol, shares |-> shares, avg_price |-> avg_price,
     last_updated |-> Datetime(t), portfolio_id |-> portfolio_id]
RECURSIVE StockRowsOf(_, _, _)
StockRowsOf(stocks, pid, t) ==
    IF stocks = <<>> THEN EmptyBag
    ELSE SetToBag({Stock(Head(stocks)[1], Head(stocks)[2].shares,
                         Head(stocks)[2].avg_price, pid, t)})
         (+) StockRowsOf(Tail(stocks), pid, t)

DbFailed(dbp, dbs) == [ok |-> FALSE, dbp |-> dbp, dbs |-> dbs]

\* save_portfolio(portfolio_name, portfolio_data)
SM_save_portfolio(dbp, dbs, portfolio_name, portfolio_data, t, raises) ==
    IF raises THEN DbFailed(dbp, dbs)
    ELSE LET existing_portfolio == PortfolioByName(dbp, portfolio_name) IN
         IF existing_portfolio # None
         THEN LET id == existing_portfolio[1].id IN
              [ok |-> TRUE, dbp |-> dbp,
               dbs |-> WithoutStocksOf(dbs, id)
                       (+) StockRowsOf(portfolio_data.stocks, id, t)]
         ELSE LET id == NewId(dbp) IN
              [ok |-> TRUE,
               dbp |-> dbp \cup {[id |-> id, name |-> portfolio_name,
                                  created_date |-> portfolio_data.created_date]},
               dbs |-> dbs (+) StockRowsOf(portfolio_data.stocks, id, t)]

\* delete_portfolio(portfolio_name); the relationship cascades to the stocks
SM_delete_portfolio(dbp, dbs, portfolio_name, raises) ==
    IF raises THEN DbFailed(dbp, dbs)
    ELSE LET portfolio == PortfolioByName(dbp, portfolio_name) IN
         IF portfolio # None
         THEN [ok |-> TRUE, dbp |-> dbp \ {portfolio[1]},
               dbs |-> WithoutStocksOf(dbs, portfolio[1].id)]
         ELSE DbFailed(dbp, dbs)

\* supabase_manager.py lines 193-195: the merged row of a symbol already held
SM_merged_position(existing_stock, shares, avg_price) ==
    LET total_shares == RatAdd(existing_stock.shares, shares)
        total_cost == RatAdd(RatMul(existing_stock.shares, existing_stock.avg_price),
                             RatMul(shares, avg_price))
        new_avg_price == RatDiv(total_cost, total_shares)
    IN [shares |-> total_shares, avg_price |-> new_avg_price]

\* database_manager.py lines 162-164: the same merge in the other backend
DM_merged_position(existing_stock, shares, avg_price) ==
    LET total_shares == RatAdd(existing_stock.shares, shares)
        total_cost == RatAdd(RatMul(existing_stock.shares, existing_stock.avg_price),
                             RatMul(shares, avg_price))
        new_avg_price == RatDiv(total_cost, total_shares)
    IN [shares |-> total_shares, avg_price |-> new_avg_price]

\* add_stock(portfolio_name, symbol, shares, avg_price); a division by zero
\* is caught like any other exception
SM_add_stock(dbp, dbs, portfolio_name, symbol, shares, avg_price, t, raises) ==
    IF raises THEN DbFailed(dbp, dbs)
    ELSE LET portfolio == PortfolioByName(dbp, portfolio_name) IN
         IF portfolio = None THEN DbFailed(dbp, dbs)
         ELSE LET id == portfolio[1].id
                  existing_stock == First(StockRows(dbs, id, symbol))
              IN IF existing_stock # None
                 THEN LET old == existing_stock[1]
                          merged == SM_merged_position(old, shares, avg_price)
                      IN IF RatAdd(old.shares, shares) = Zero
                         THEN DbFailed(dbp, dbs)
                         ELSE [ok |-> TRUE, dbp |-> dbp,
                               dbs |-> (dbs (-) SetToBag({old}))
                                       (+) SetToBag({[old EXCEPT
                                             !.shares = merged.shares,
                                             !.avg_price = merged.avg_price]})]
                 ELSE [ok |-> TRUE, dbp |-> dbp,
                       dbs |-> dbs (+) SetToBag({Stock(symbol, shares,
                                                       avg_price, id, t)})]

\* remove_stock(portfolio_name, symbol)
SM_remove_stock(dbp, dbs, portfolio_name, symbol, raises) ==
    IF raises THEN DbFailed(dbp, dbs)
    ELSE LET portfolio == PortfolioByName(dbp, portfolio_name) IN
         IF portfolio = None THEN DbFailed(dbp, dbs)
         ELSE LET stock == First(StockRows(dbs, portfolio[1].id, symbol)) IN
              IF stock # None
              THEN [ok |-> TRUE, dbp |-> dbp, dbs |-> dbs (-) SetToBag({stock[1]})]
              ELSE DbFailed(dbp, dbs)

\* update_stock(portfolio_name, symbol, shares, avg_price)
SM_update_stock(dbp, dbs, portfolio_name, symbol, shares, avg_price, raises) ==
    IF raises THEN DbFailed(dbp, dbs)
    ELSE LET portfolio == PortfolioByName(dbp, portfolio_name) IN
         IF portfolio = None THEN DbFailed(dbp, dbs)
         ELSE LET stock == First(StockRows(dbs, portfolio[1].id, symbol)) IN
              IF stock # None
              THEN [ok |-> TRUE, dbp |-> dbp,
                    dbs |-> (dbs (-) SetToBag({stock[1]}))
                            (+) SetToBag({[stock[1] EXCEPT
                                             !.shares = shares,
                                             !.avg_price = avg_price]})]
              ELSE DbFailed(dbp, dbs)

\* load_portfolios(): a dict of the rows.  Portfolios come in id order and
\* stocks in symbol order; a later row of the same key replaces an earlier one.
RECURSIVE SM_stocks_data(_, _, _)
SM_stocks_data(dbs, pid, symbols) ==
    IF symbols = <<>> THEN <<>>
    ELSE LET stock == First(StockRows(dbs, pid, Head(symbols)))
             rest == SM_stocks_data(dbs, pid, Tail(symbols))
         IN IF stock = None THEN rest
            ELSE <<<<stock[1].symbol,
                     [shares |-> stock[1].shares,
                      avg_price |-> stock[1].avg_price,
                      last_updated |-> stock[1].last_updated]>>>> \o rest

RECURSIVE SM_load_rows(_, _)
SM_load_rows(rows, dbs) ==
    IF rows = {} THEN <<>>
    ELSE LET portfolio == CHOOSE r \in rows : \A q \in rows : q.id <= r.id IN
         DictSet(SM_load_rows(rows \ {portfolio}, dbs), portfolio.name,
                 [stocks |-> SM_stocks_data(dbs, portfolio.id, SymbolOrder),
                  created_date |-> portfolio.created_date])

SM_load_portfolios(dbp, dbs) == SM_load_rows(dbp, dbs)

\* migrate_from_json(json_file): every portfolio of the file is saved, the
\* result of save_portfolio being ignored, and the file is then renamed.
\* failing is the set of portfolio names whose save raises.
RECURSIVE SM_migrate_rows(_, _, _, _, _)
SM_migrate_rows(dbp, dbs, data, t, failing) ==
    IF data = <<>> THEN [dbp |-> dbp, dbs |-> dbs]
    ELSE LET portfolio_name == Head(data)[1]
             portfolio_data == [Head(data)[2] EXCEPT
                                  !.created_date = FromIsoformat(@)]
             w == SM_save_portfolio(dbp, dbs, portfolio_name, portfolio_data, t,
                                    portfolio_name \in failing)
         IN SM_migrate_rows(w.dbp, w.dbs, Tail(data), t, failing)

SM_migrate_from_json(dbp, dbs, file, t, failing) ==
    IF file # None
    THEN LET w == SM_migrate_rows(dbp, dbs, file[1], t, failing) IN
         [ok |-> TRUE, dbp |-> w.dbp, dbs |-> w.dbs, file |-> None,
          backup |-> file]
    ELSE [ok |-> FALSE, dbp |-> dbp, dbs |-> dbs, file |-> file,
          backup |-> backup_file]

----------------------------------------------------------------------------
(* Portfolio store: portfolio_manager.py *)

\* save_portfolios(), flat-file branch.  data is a shallow copy of
\* st.session_state.portfolios, so the loop converts the dates of the
\* session's own portfolio dicts in place; .isoformat() on a value that is
\* already a string raises, the except clause reports it and nothing is
\* written.
RECURSIVE PM_iso_stocks(_)
PM_iso_stocks(stocks) ==
    IF stocks = <<>> THEN [stocks |-> <<>>, ok |-> TRUE]
    ELSE LET symbol == Head(stocks)[1]
             stock_data == Head(stocks)[2]
         IN IF stock_data.last_updated.kind # "datetime"
            THEN [stocks |-> stocks, ok |-> FALSE]
            ELSE LET rest == PM_iso_stocks(Tail(stocks)) IN
                 [stocks |-> <<<<symbol, [stock_data EXCEPT
                                   !.last_updated = Isoformat(@)]>>>>
                             \o rest.stocks,
                  ok |-> rest.ok]

RECURSIVE PM_iso_portfolios(_)
PM_iso_portfolios(data) ==
    IF data = <<>> THEN [data |-> <<>>, ok |-> TRUE]
    ELSE LET portfolio_name == Head(data)[1]
             portfolio_data == Head(data)[2]
         IN IF portfolio_data.created_date.kind # "datetime"
            THEN [data |-> data, ok |-> FALSE]
            ELSE LET st == PM_iso_stocks(portfolio_data.stocks)
                     done == <<portfolio_name,
                               [stocks |-> st.stocks,
                                created_date |->
                                    Isoformat(portfolio_data.created_date)]>>
                 IN IF ~st.ok
                    THEN [data |-> <<done>> \o Tail(data), ok |-> FALSE]
                    ELSE LET rest == PM_iso_portfolios(Tail(data)) IN
                         [data |-> <<done>> \o rest.data, ok |-> rest.ok]

PM_save_portfolios(session_portfolios, file) ==
    LET r == PM_iso_portfolios(session_portfolios) IN
    [portfolios |-> r.data,
     file |-> IF r.ok THEN Some(r.data) ELSE file,
     ok |-> r.ok]

\* load_portfolios(), flat-file branch: json.load and the conversion of the
\* date strings back to datetimes.
RECURSIVE PM_parse_stocks(_)
PM_parse_stocks(stocks) ==
    IF stocks = <<>> THEN <<>>
    ELSE <<<<Head(stocks)[1],
             [Head(stocks)[2] EXCEPT !.last_updated = FromIsoformat(@)]>>>>
         \o PM_parse_stocks(Tail(stocks))

RECURSIVE PM_parse_portfolios(_)
PM_parse_portfolios(data) ==
    IF data = <<>> THEN <<>>
    ELSE <<<<Head(data)[1],
             [stocks |-> PM_parse_stocks(Head(data)[2].stocks),
              created_date |-> FromIsoformat(Head(data)[2].created_date)]>>>>
         \o PM_parse_portfolios(Tail(data))

\* What a mutating operation leaves behind: its return value, the session's
\* portfolios, the file, the tables, and whether its write went through
\* ("none" when it attempted no write).
NotDone ==
    [ret |-> "False", portfolios |-> portfolios, file |-> portfolios_file,
     dbp |-> db_portfolios, dbs |-> db_stocks, wrote |-> "none"]

\* self.save_portfolios() after the in-memory change
FileWrite(session_portfolios) ==
    LET w == PM_save_portfolios(session_portfolios, portfolios_file) IN
    [ret |-> "True", portfolios |-> w.portfolios, file |-> w.file,
     dbp |-> db_portfolios, dbs |-> db_stocks,
     wrote |-> IF w.ok THEN "ok" ELSE "failed"]

\* self.supabase_manager.<operation>(...) after the in-memory change; what
\* the backend returns is not looked at
DbWrite(session_portfolios, w) ==
    [ret |-> "True", portfolios |-> session_portfolios, file |-> portfolios_file,
     dbp |-> w.dbp, dbs |-> w.dbs,
     wrote |-> IF w.ok THEN "ok" ELSE "failed"]

\* create_portfolio(name) without the test of line 76
PM_create_portfolio_Overwrite(name, raises) ==
    LET portfolio_data == [stocks |-> <<>>, created_date |-> Datetime(now)]
        ps == DictSet(portfolios, name, portfolio_data)
    IN IF use_supabase
       THEN DbWrite(ps, SM_save_portfolio(db_portfolios, db_stocks, name,
                                          portfolio_data, now, raises))
       ELSE FileWrite(ps)

\* create_portfolio(name)
PM_create_portfolio(name, raises) ==
    IF name \notin DictKeys(portfolios)
    THEN LET portfolio_data == [stocks |-> <<>>, created_date |-> Datetime(now)]
             ps == DictSet(portfolios, name, portfolio_data)
         IN IF use_supabase
            THEN DbWrite(ps, SM_save_portfolio(db_portfolios, db_stocks, name,
                                               portfolio_data, now, raises))
            ELSE FileWrite(ps)
    ELSE NotDone

\* delete_portfolio(name)
PM_delete_portfolio(name, raises) ==
    IF name \in DictKeys(portfolios)
    THEN LET ps == DictDel(portfolios, name) IN
         IF use_supabase
         THEN DbWrite(ps, SM_delete_portfolio(db_portfolios, db_stocks, name,
                                              raises))
         ELSE FileWrite(ps)
    ELSE NotDone

\* the merge with the plain mean of the two prices
PM_merged_position_Unweighted(existing, shares, avg_price) ==
    [shares |-> RatAdd(existing.shares, shares),
     avg_price |-> RatDiv(RatAdd(existing.avg_price, avg_price), Num(2))]

\* the merge keeping the price of the latest lot
PM_merged_position_Latest(existing, shares, avg_price) ==
    [shares |-> RatAdd(existing.shares, shares), avg_price |-> avg_price]

\* the merge dividing the cost by the shares added
PM_merged_position_PerLot(existing, shares, avg_price) ==
    LET total_shares == RatAdd(existing.shares, shares)
        total_cost == RatAdd(RatMul(existing.shares, existing.avg_price),
                             RatMul(shares, avg_price))
        new_avg_price == RatDiv(total_cost, shares)
    IN [shares |-> total_shares, avg_price |-> new_avg_price]

\* lines 110-112: the merged position of a symbol already held
PM_merged_position(existing, shares, avg_price) ==
    LET total_shares == RatAdd(existing.shares, shares)
        total_cost == RatAdd(RatMul(existing.shares, existing.avg_price),
                             RatMul(shares, avg_price))
        new_avg_price == RatDiv(total_cost, total_shares)
    IN [shares |-> total_shares, avg_price |-> new_avg_price]

\* add_stock handing the merged position to the backend, which merges again
PM_add_stock_Totals(portfolio_name, symbol, shares, avg_price, raises) ==
    IF portfolio_name \in DictKeys(portfolios)
    THEN LET portfolio == DictGet(portfolios, portfolio_name)
             held == symbol \in DictKeys(portfolio.stocks)
         IN IF held /\ RatAdd(DictGet(portfolio.stocks, symbol).shares, shares) = Zero
            THEN [NotDone EXCEPT !.ret = "ZeroDivisionError"]
            ELSE LET merged == PM_merged_position(DictGet(portfolio.stocks, symbol),
                                                  shares, avg_price)
                     position ==
                         IF held
                         THEN [shares |-> merged.shares,
                               avg_price |-> merged.avg_price,
                               last_updated |-> Datetime(now)]
                         ELSE [shares |-> shares, avg_price |-> avg_price,
                               last_updated |-> Datetime(now)]
                     ps == DictSet(portfolios, portfolio_name,
                                   [portfolio EXCEPT
                                      !.stocks = DictSet(@, symbol, position)])
                 IN IF use_supabase
                    THEN DbWrite(ps, SM_add_stock(db_portfolios, db_stocks,
                                                  portfolio_name, symbol,
                                                  position.shares,
                                                  position.avg_price, now,
                                                  raises))
                    ELSE FileWrite(ps)
    ELSE NotDone

\* add_stock(portfolio_name, symbol, shares, avg_price); the division raises
\* ZeroDivisionError, which nothing catches, when the shares sum to zero
PM_add_stock(portfolio_name, symbol, shares, avg_price, raises) ==
    IF portfolio_name \in DictKeys(portfolios)
    THEN LET portfolio == DictGet(portfolios, portfolio_name)
             held == symbol \in DictKeys(portfolio.stocks)
         IN IF held /\ RatAdd(DictGet(portfolio.stocks, symbol).shares, shares) = Zero
            THEN [NotDone EXCEPT !.ret = "ZeroDivisionError"]
            ELSE LET merged == PM_merged_position(DictGet(portfolio.stocks, symbol),
                                                  shares, avg_price)
                     position ==
                         IF held
                         THEN [shares |-> merged.shares,
                               avg_price |-> merged.avg_price,
                               last_updated |-> Datetime(now)]
                         ELSE [shares |-> shares, avg_price |-> avg_price,
                               last_updated |-> Datetime(now)]
                     ps == DictSet(portfolios, portfolio_name,
                                   [portfolio EXCEPT
                                      !.stocks = DictSet(@, symbol, position)])
                 IN IF use_supabase
                    THEN DbWrite(ps, SM_add_stock(db_portfolios, db_stocks,
                                                  portfolio_name, symbol, shares,
                                                  avg_price, now, raises))
                    ELSE FileWrite(ps)
    ELSE NotDone

\* remove_stock(portfolio_name, symbol)
PM_remove_stock(portfolio_name, symbol, raises) ==
    IF /\ portfolio_name \in DictKeys(portfolios)
       /\ symbol \in DictKeys(DictGet(portfolios, portfolio_name).stocks)
    THEN LET portfolio == DictGet(portfolios, portfolio_name)
             ps == DictSet(portfolios, portfolio_name,
                           [portfolio EXCEPT !.stocks = DictDel(@, symbol)])
         IN IF use_supabase
            THEN DbWrite(ps, SM_remove_stock(db_portfolios, db_stocks,
                                             portfolio_name, symbol, raises))
            ELSE FileWrite(ps)
    ELSE NotDone

\* update_stock(portfolio_name, symbol, shares, avg_price)
PM_update_stock(portfolio_name, symbol, shares, avg_price, raises) ==
    IF /\ portfolio_name \in DictKeys(portfolios)
       /\ symbol \in DictKeys(DictGet(portfolios, portfolio_name).stocks)
    THEN LET portfolio == DictGet(portfolios, portfolio_name)
             position == [shares |-> shares, avg_price |-> avg_price,
                          last_updated |-> Datetime(now)]
             ps == DictSet(portfolios, portfolio_name,
                           [portfolio EXCEPT
                              !.stocks = DictSet(@, symbol, position)])
         IN IF use_supabase
            THEN DbWrite(ps, SM_update_stock(db_portfolios, db_stocks,
                                             portfolio_name, symbol, shares,
                                             avg_price, raises))
            ELSE FileWrite(ps)
    ELSE NotDone

\* get_portfolio_summary(portfolio_name)
PM_get_portfolio_summary(session_portfolios, portfolio_name) ==
    IF portfolio_name \notin DictKeys(session_portfolios) THEN None
    ELSE LET portfolio == DictGet(session_portfolios, portfolio_name)
             stocks == portfolio.stocks
         IN Some([total_stocks |-> Len(stocks),
                  created_date |-> portfolio.created_date,
                  stocks |-> [i \in DOMAIN stocks |-> stocks[i][1]]])

\* load_portfolios() in a fresh session, followed by the default of app.py
\* (lines 31-32) when it found nothing to load. connected is what
\* is_connected() answered in __init__ (line 11).
PM_load_portfolios_as(connected, failing) ==
    IF connected
    THEN LET m == IF portfolios_file # None
                  THEN SM_migrate_from_json(db_portfolios, db_stocks,
                                            portfolios_file, now, failing)
                  ELSE [ok |-> FALSE, dbp |-> db_portfolios, dbs |-> db_stocks,
                        file |-> portfolios_file, backup |-> backup_file]
         IN [portfolios |-> SM_load_portfolios(m.dbp, m.dbs),
             dbp |-> m.dbp, dbs |-> m.dbs, file |-> m.file, backup |-> m.backup]
    ELSE [portfolios |-> IF portfolios_file # None
                         THEN PM_parse_portfolios(portfolios_file[1])
                         ELSE <<>>,
          dbp |-> db_portfolios, dbs |-> db_stocks, file |-> portfolios_file,
          backup |-> backup_file]

PM_load_portfolios(failing) == PM_load_portfolios_as(use_supabase, failing)

----------------------------------------------------------------------------
(* Valuation: show_portfolio_overview of app.py and                        *)
(* calculate_portfolio_value of stock_data.py                              *)

\* x / y raises ZeroDivisionError when y is zero
ZeroDivisionError == <<"ZeroDivisionError">>
Div(x, y) == IF y = Zero THEN ZeroDivisionError ELSE RatDiv(x, y)
Times100(q) == IF q = ZeroDivisionError THEN q ELSE RatMul(q, Num(100))

\* the percentage of a holding computed whatever its cost basis
gain_loss_pct_Unguarded(gain_loss, cost_basis) ==
    Times100(Div(gain_loss, cost_basis))

\* app.py line 165
gain_loss_pct(gain_loss, cost_basis) ==
    IF RatLess(Zero, cost_basis) THEN Times100(Div(gain_loss, cost_basis))
    ELSE Zero

\* app.py line 188
total_gain_loss_pct(total_gain_loss, total_cost) ==
    IF RatLess(Zero, total_cost) THEN Times100(Div(total_gain_loss, total_cost))
    ELSE Zero

\* the percentage taken of the value instead of the cost
CPV_total_gain_loss_pct_OfValue(total_value, total_cost) ==
    IF RatLess(Zero, total_cost)
    THEN Times100(Div(RatSub(total_value, total_cost), total_value))
    ELSE Zero

\* stock_data.py line 151
CPV_total_gain_loss_pct(total_value, total_cost) ==
    IF RatLess(Zero, total_cost)
    THEN Times100(Div(RatSub(total_value, total_cost), total_cost))
    ELSE Zero

\* app.py lines 156-183: the loop over stocks.items().  A symbol without a
\* price is skipped; an exception in the body is reported and the symbol
\* contributes neither a row nor to the totals.
RECURSIVE OverviewLoop(_, _, _, _)
OverviewLoop(stocks, cache, answers, t) ==
    IF stocks = <<>>
    THEN [portfolio_data |-> <<>>, total_value |-> Zero, total_cost |-> Zero,
          cache |-> cache, errors |-> {}, prices |-> <<>>, reported |-> {}]
    ELSE LET symbol == Head(stocks)[1]
             stock_info == Head(stocks)[2]
             r == GetCurrentPrice(cache, symbol, t, answers[symbol])
             next == OverviewLoop(Tail(stocks), r.cache, answers, t)
             rest == [next EXCEPT
                        !.prices = <<<<symbol, r.ret>>>> \o @,
                        !.reported = IF r.error THEN @ \cup {symbol} ELSE @]
         IN IF r.ret = None THEN rest
            ELSE LET current_price == Num(r.ret[1])
                     shares == stock_info.shares
                     avg_price == stock_info.avg_price
                     current_value == RatMul(current_price, shares)
                     cost_basis == RatMul(avg_price, shares)
                     gain_loss == RatSub(current_value, cost_basis)
                     pct == gain_loss_pct(gain_loss, cost_basis)
                 IN IF pct = ZeroDivisionError
                    THEN [rest EXCEPT !.errors = @ \cup {symbol}]
                    ELSE [rest EXCEPT
                            !.portfolio_data =
                                <<[Symbol |-> symbol, Shares |-> shares,
                                   current_value |-> current_value,
                                   cost_basis |-> cost_basis,
                                   gain_loss |-> gain_loss,
                                   gain_loss_pct |-> pct]>> \o @,
                            !.total_value = RatAdd(current_value, @),
                            !.total_cost = RatAdd(cost_basis, @)]

\* stock_data.py lines 132-145: the loop of calculate_portfolio_value
RECURSIVE ValueLoop(_, _, _, _)
ValueLoop(portfolio_stocks, cache, answers, t) ==
    IF portfolio_stocks = <<>>
    THEN [total_value |-> Zero, total_cost |-> Zero, cache |-> cache,
          prices |-> <<>>, reported |-> {}]
    ELSE LET symbol == Head(portfolio_stocks)[1]
             stock_info == Head(portfolio_stocks)[2]
             r == GetCurrentPrice(cache, symbol, t, answers[symbol])
             next == ValueLoop(Tail(portfolio_stocks), r.cache, answers, t)
             rest == [next EXCEPT
                        !.prices = <<<<symbol, r.ret>>>> \o @,
                        !.reported = IF r.error THEN @ \cup {symbol} ELSE @]
         IN IF r.ret = None THEN rest
            ELSE [rest EXCEPT
                    !.total_value = RatAdd(RatMul(Num(r.ret[1]),
                                                  stock_info.shares), @),
                    !.total_cost = RatAdd(RatMul(stock_info.avg_price,
                                                 stock_info.shares), @)]

\* A valuation leaves what it showed or returned; stocks, prices (what the
\* gateway gave for each holding, in order) and reported (the symbols the
\* gateway reported an error for) record what it was run on.
NoView == [op |-> "none", portfolio_data |-> <<>>, errors |-> {},
           summary |-> None, raised |-> FALSE, stocks |-> <<>>,
           prices |-> <<>>, reported |-> {}]

\* The prices the calls of a valuation left in the cache were fetched when
\* the cache says.
FetchedOf(cache) ==
    [s \in DOMAIN cache |-> [price |-> cache[s].price, at |-> cache[s].timestamp]]

\* show_portfolio_overview(portfolio_name), up to the summary metrics
ShowPortfolioOverview(portfolio_name) ==
    /\ portfolio_name \in DictKeys(portfolios)
    /\ \E answers \in [Symbols -> ValuationAnswers] :
           LET stocks == DictGet(portfolios, portfolio_name).stocks
               loop == OverviewLoop(stocks, price_cache, answers, now)
               total_gain_loss == RatSub(loop.total_value, loop.total_cost)
               pct == total_gain_loss_pct(total_gain_loss, loop.total_cost)
               shown == loop.portfolio_data # <<>>
           IN /\ view' = [op |-> "show_portfolio_overview",
                          portfolio_data |-> loop.portfolio_data,
                          errors |-> loop.errors,
                          summary |->
                              IF shown /\ pct # ZeroDivisionError
                              THEN Some([total_value |-> loop.total_value,
                                         total_cost |-> loop.total_cost,
                                         total_gain_loss |-> total_gain_loss,
                                         total_gain_loss_pct |-> pct])
                              ELSE None,
                          raised |-> shown /\ pct = ZeroDivisionError,
                          stocks |-> stocks, prices |-> loop.prices,
                          reported |-> loop.reported]
              /\ price_cache' = loop.cache
              /\ fetched' = FetchedOf(loop.cache)
              /\ gw' = [NoCall EXCEPT !.op = "show_portfolio_overview",
                                      !.raised = loop.reported]
              /\ data_cache' = data_cache
    /\ UNCHANGED <<portfolios, portfolios_file, backup_file, db_portfolios,
                   db_stocks, use_supabase, ops, last, lots, chart,
                   clockVars>>

\* calculate_portfolio_value(portfolio_stocks) on the holdings of a portfolio
\* calculate_portfolio_value(portfolios[portfolio_name]['stocks']) with the
\* provider answering answers[symbol] for each symbol
CalculatePortfolioValueOn(portfolio_name, answers) ==
    /\ portfolio_name \in DictKeys(portfolios)
    /\     LET portfolio_stocks == DictGet(portfolios, portfolio_name).stocks
               loop == ValueLoop(portfolio_stocks, price_cache, answers, now)
               pct == CPV_total_gain_loss_pct(loop.total_value, loop.total_cost)
           IN /\ view' = [op |-> "calculate_portfolio_value",
                          portfolio_data |-> <<>>,
                          errors |-> {},
                          summary |->
                              IF pct # ZeroDivisionError
                              THEN Some([total_value |-> loop.total_value,
                                         total_cost |-> loop.total_cost,
                                         total_gain_loss |->
                                             RatSub(loop.total_value,
                                                    loop.total_cost),
                                         total_gain_loss_pct |-> pct])
                              ELSE None,
                          raised |-> pct = ZeroDivisionError,
                          stocks |-> portfolio_stocks, prices |-> loop.prices,
                          reported |-> loop.reported]
              /\ price_cache' = loop.cache
              /\ fetched' = FetchedOf(loop.cache)
              /\ gw' = [NoCall EXCEPT !.op = "calculate_portfolio_value",
                                      !.raised = loop.reported,
                                      !.exc = (pct = ZeroDivisionError)]
              /\ data_cache' = data_cache
    /\ UNCHANGED <<portfolios, portfolios_file, backup_file, db_portfolios,
                   db_stocks, use_supabase, ops, last, lots, chart,
                   clockVars>>

CalculatePortfolioValue(portfolio_name) ==
    \E answers \in [Symbols -> ValuationAnswers] :
        CalculatePortfolioValueOn(portfolio_name, answers)

----------------------------------------------------------------------------
(* Market data gateway: bars, descriptive info, validation, batches *)

Periods == {"1y"}
SymbolLists == {<<"X">>, <<"X", "Y">>}

\* What ticker.history(period) answers: rows indexed by date in ascending
\* order, each <<date, close>> with the date a day number, or an exception.
HistoryRows == {<<>>, <<<<1, 10>>, <<2, 110>>>>}
HistoryAnswers ==
    {[raise |-> TRUE, rows |-> <<>>]}
    \cup {[raise |-> FALSE, rows |-> rows] : rows \in HistoryRows}

\* DataFrame.reset_index(): the date index becomes the column Date and the
\* rows are numbered by position.
reset_index(hist) ==
    [i \in 1..Len(hist) |-> [Date |-> hist[i][1], Close |-> hist[i][2]]]

cache_key(symbol, period) == <<symbol, period>>

\* get_historical_data without its except clause.
GetHistoricalData_Propagating(cache, symbol, period, t, ans) ==
    LET key == cache_key(symbol, period) IN
    IF key \in DOMAIN cache /\ CacheFresh(cache[key].timestamp, t)
    THEN [ret |-> Some(cache[key].cached_data), cache |-> cache,
          error |-> FALSE, exc |-> FALSE]
    ELSE IF ans.raise
    THEN [ret |-> None, cache |-> cache, error |-> FALSE, exc |-> TRUE]
    ELSE IF ans.rows = <<>>
    THEN [ret |-> None, cache |-> cache, error |-> FALSE, exc |-> FALSE]
    ELSE LET hist == reset_index(ans.rows)
         IN [ret |-> Some(hist),
             cache |-> (key :> [cached_data |-> hist, timestamp |-> t]) @@ cache,
             error |-> FALSE, exc |-> FALSE]

\* get_historical_data(symbol, period) at time t against one provider answer
GetHistoricalData(cache, symbol, period, t, ans) ==
    LET key == cache_key(symbol, period) IN
    IF key \in DOMAIN cache /\ CacheFresh(cache[key].timestamp, t)
    THEN [ret |-> Some(cache[key].cached_data), cache |-> cache,
          error |-> FALSE, exc |-> FALSE]
    ELSE IF ans.raise
    THEN [ret |-> None, cache |-> cache, error |-> TRUE, exc |-> FALSE]
    ELSE IF ans.rows = <<>>
    THEN [ret |-> None, cache |-> cache, error |-> FALSE, exc |-> FALSE]
    ELSE LET hist == reset_index(ans.rows)
         IN [ret |-> Some(hist),
             cache |-> (key :> [cached_data |-> hist, timestamp |-> t]) @@ cache,
             error |-> FALSE, exc |-> FALSE]

\* What ticker.info answers to get_stock_info: a dict of descriptive fields,
\* any of which may be absent, or an exception.
InfoAnswers ==
    {[raise |-> TRUE, info |-> <<>>],
     [raise |-> FALSE, info |-> <<>>],
     [raise |-> FALSE, info |-> [f \in {"longName", "sector"} |->
                                    IF f = "longName" THEN "X Corp" ELSE "Tech"]]}

\* dict.get(key, default)
InfoGet(info, key, default) == IF key \in DOMAIN info THEN info[key] ELSE default

\* The provider field each key of the result is read from.
InfoField ==
    [k \in {"name", "sector", "industry", "market_cap", "pe_ratio",
            "dividend_yield", "beta", "52_week_high", "52_week_low"} |->
        CASE k = "name" -> "longName"
          [] k = "sector" -> "sector"
          [] k = "industry" -> "industry"
          [] k = "market_cap" -> "marketCap"
          [] k = "pe_ratio" -> "trailingPE"
          [] k = "dividend_yield" -> "dividendYield"
          [] k = "beta" -> "beta"
          [] k = "52_week_high" -> "fiftyTwoWeekHigh"
          [] k = "52_week_low" -> "fiftyTwoWeekLow"]

\* get_stock_info(symbol)
GetStockInfo(symbol, ans) ==
    IF ans.raise
    THEN [ret |-> None, error |-> TRUE, exc |-> FALSE]
    ELSE [ret |-> Some([k \in DOMAIN InfoField \cup {"symbol"} |->
                          IF k = "symbol" THEN symbol
                          ELSE InfoGet(ans.info, InfoField[k],
                                       IF k = "name" THEN symbol ELSE "N/A")]),
          error |-> FALSE, exc |-> FALSE]

\* The answers the gateway's operations are run against, all at one price:
\* those of a price query, those of a batch, and for validate_symbol also
\* answers whose info carries none of the three fields it looks for.
GatewayPrices == {110}
GatewayAnswers ==
    {ans \in ProviderAnswers :
        /\ \A f \in DOMAIN ans.info :
               ans.info[f] = None \/ ans.info[f][1] \in GatewayPrices
        /\ \A i \in DOMAIN ans.hist : ans.hist[i] \in GatewayPrices}
BatchAnswers == GatewayAnswers \cap ValuationAnswers
InfoBare == <<>>
InfoBidAlone(p) == [f \in {"bid"} |-> Some(p)]
ValidationAnswers ==
    GatewayAnswers
    \cup {[raise_at |-> "history", info |-> InfoBare, hist |-> <<>>],
          [raise_at |-> "none", info |-> InfoBare, hist |-> <<>>]}
    \cup {[raise_at |-> "none", info |-> InfoBare, hist |-> <<p>>] :
             p \in GatewayPrices}
    \cup {[raise_at |-> "none", info |-> InfoBidAlone(p), hist |-> <<>>] :
             p \in GatewayPrices}

ValidatedFields == {"regularMarketPrice", "currentPrice", "price"}

\* validate_symbol(symbol); raised tells whether the provider raised.
ValidateSymbol(ans) ==
    IF ans.raise_at = "info"
    THEN [ret |-> FALSE, raised |-> TRUE, exc |-> FALSE]
    ELSE IF ValidatedFields \cap DOMAIN ans.info # {}
    THEN [ret |-> TRUE, raised |-> FALSE, exc |-> FALSE]
    ELSE IF ans.raise_at = "history"
    THEN [ret |-> FALSE, raised |-> TRUE, exc |-> FALSE]
    ELSE [ret |-> ans.hist # <<>>, raised |-> FALSE, exc |-> FALSE]

\* get_multiple_prices(symbols): the loop from the dict built so far
RECURSIVE GetMultiplePrices(_, _, _, _, _)
GetMultiplePrices(prices, symbols, cache, answers, t) ==
    IF symbols = <<>>
    THEN [ret |-> prices, cache |-> cache, raised |-> {}, exc |-> FALSE]
    ELSE LET symbol == Head(symbols)
             r == GetCurrentPrice(cache, symbol, t, answers[symbol])
         IN IF r.exc
            THEN [ret |-> prices, cache |-> r.cache, raised |-> {symbol},
                  exc |-> TRUE]
            ELSE LET next == GetMultiplePrices(
                                 IF r.ret # None
                                 THEN DictSet(prices, symbol, r.ret[1])
                                 ELSE prices,
                                 Tail(symbols), r.cache, answers, t)
                 IN [next EXCEPT !.raised = IF r.error THEN @ \cup {symbol}
                                            ELSE @]

\* get_portfolio_historical_data(symbols, period): the loop from the dict
\* built so far
RECURSIVE GetPortfolioHistoricalData(_, _, _, _, _, _)
GetPortfolioHistoricalData(all_data, symbols, period, cache, answers, t) ==
    IF symbols = <<>>
    THEN [ret |-> all_data, cache |-> cache, raised |-> {}, exc |-> FALSE]
    ELSE LET symbol == Head(symbols)
             r == GetHistoricalData(cache, symbol, period, t, answers[symbol])
         IN IF r.exc
            THEN [ret |-> all_data, cache |-> r.cache, raised |-> {symbol},
                  exc |-> TRUE]
            ELSE LET next == GetPortfolioHistoricalData(
                                 IF r.ret # None
                                 THEN DictSet(all_data, symbol, r.ret[1])
                                 ELSE all_data,
                                 Tail(symbols), period, r.cache, answers, t)
                 IN [next EXCEPT !.raised = IF r.error THEN @ \cup {symbol}
                                            ELSE @]

GetHistoricalDataCall(symbol, period) ==
    \E ans \in HistoryAnswers :
        LET r == GetHistoricalData(data_cache, symbol, period, now, ans) IN
        /\ data_cache' = r.cache
        /\ gw' = [NoCall EXCEPT !.op = "get_historical_data",
                                !.symbol = symbol, !.ret = r.ret,
                                !.raised = IF r.error \/ r.exc THEN {symbol}
                                           ELSE {},
                                !.exc = r.exc]
        /\ UNCHANGED <<price_cache, fetched, clockVars, storeVars>>

GetStockInfoCall(symbol) ==
    \E ans \in InfoAnswers :
        LET r == GetStockInfo(symbol, ans) IN
        /\ gw' = [NoCall EXCEPT !.op = "get_stock_info", !.symbol = symbol,
                                !.ret = r.ret,
                                !.raised = IF r.error THEN {symbol} ELSE {},
                                !.exc = r.exc]
        /\ UNCHANGED <<price_cache, data_cache, fetched, clockVars, storeVars>>

ValidateSymbolCall(symbol) ==
    \E ans \in ValidationAnswers :
        LET r == ValidateSymbol(ans) IN
        /\ gw' = [NoCall EXCEPT !.op = "validate_symbol", !.symbol = symbol,
                                !.ret = r.ret, !.offered = Offered(ans),
                                !.raised = IF r.raised THEN {symbol} ELSE {},
                                !.exc = r.exc]
        /\ UNCHANGED <<price_cache, data_cache, fetched, clockVars, storeVars>>

GetMultiplePricesCall(symbols) ==
    \E answers \in [Symbols -> BatchAnswers] :
        LET r == GetMultiplePrices(<<>>, symbols, price_cache, answers, now) IN
        /\ price_cache' = r.cache
        /\ fetched' = FetchedOf(r.cache)
        /\ gw' = [NoCall EXCEPT !.op = "get_multiple_prices", !.ret = r.ret,
                                !.raised = r.raised, !.exc = r.exc]
        /\ UNCHANGED <<data_cache, clockVars, storeVars>>

GetPortfolioHistoricalDataCall(symbols, period) ==
    \E answers \in [Symbols -> HistoryAnswers] :
        LET r == GetPortfolioHistoricalData(<<>>, symbols, period, data_cache,
                                            answers, now) IN
        /\ data_cache' = r.cache
        /\ gw' = [NoCall EXCEPT !.op = "get_portfolio_historical_data",
                                !.ret = r.ret, !.raised = r.raised,
                                !.exc = r.exc]
        /\ UNCHANGED <<price_cache, fetched, clockVars, storeVars>>

----------------------------------------------------------------------------
(* Portfolio performance over time: charts.py, app.py *)

\* Dates are day numbers; day 0 is a Monday.
tolerance_days == 7

\* datetime.weekday(): Monday is 0
weekday(date) == date % 7

SetMin(S) == CHOOSE x \in S : \A y \in S : x <= y
SetMax(S) == CHOOSE x \in S : \A y \in S : x >= y
DatesOf(data) == {data[i].Date : i \in DOMAIN data}

\* The range covered by any of the series.
RECURSIVE CommonRange_Union(_, _, _)
CommonRange_Union(all_data, min_date, max_date) ==
    IF all_data = <<>> THEN [min_date |-> min_date, max_date |-> max_date]
    ELSE LET data == Head(all_data)[2]
             lo == SetMin(DatesOf(data))
             hi == SetMax(DatesOf(data))
         IN CommonRange_Union(
                Tail(all_data),
                IF min_date = None \/ lo < min_date[1] THEN Some(lo) ELSE min_date,
                IF max_date = None \/ hi > max_date[1] THEN Some(hi) ELSE max_date)

\* The loop that finds the common date range, from the bounds found so far
RECURSIVE CommonRange(_, _, _)
CommonRange(all_data, min_date, max_date) ==
    IF all_data = <<>> THEN [min_date |-> min_date, max_date |-> max_date]
    ELSE LET data == Head(all_data)[2]
             lo == SetMin(DatesOf(data))
             hi == SetMax(DatesOf(data))
         IN CommonRange(
                Tail(all_data),
                IF min_date = None \/ lo > min_date[1] THEN Some(lo) ELSE min_date,
                IF max_date = None \/ hi < max_date[1] THEN Some(hi) ELSE max_date)

\* stock_data['Date'].sub(date).abs(), in days
Distances(stock_data, date) ==
    [i \in DOMAIN stock_data |-> Abs(stock_data[i].Date - date)]

\* The last position of the minimum.
idxmin_Last(distances) ==
    CHOOSE i \in DOMAIN distances :
        /\ \A j \in DOMAIN distances : distances[i] <= distances[j]
        /\ \A j \in DOMAIN distances : j > i => distances[j] > distances[i]

\* Series.idxmin(): the first position of the minimum (rows are numbered
\* from 1 here, from 0 in the code)
idxmin(distances) ==
    CHOOSE i \in DOMAIN distances :
        /\ \A j \in DOMAIN distances : distances[i] <= distances[j]
        /\ \A j \in DOMAIN distances : j < i => distances[j] > distances[i]

\* No tolerance at all.
WithinTolerance_Always(days) == TRUE

\* abs((closest - date).days) <= 7
WithinTolerance(days) == days <= tolerance_days

\* The loop over stocks_info.items() for one date, from the value summed so
\* far; used records closest_date_idx for each symbol visited.
RECURSIVE HoldingsLoop(_, _, _, _, _)
HoldingsLoop(stocks_info, all_data, date, daily_value, used) ==
    IF stocks_info = <<>>
    THEN [daily_value |-> daily_value, valid_date |-> TRUE, used |-> used]
    ELSE LET symbol == Head(stocks_info)[1]
             stock_info == Head(stocks_info)[2]
         IN IF symbol \notin DictKeys(all_data)
            THEN HoldingsLoop(Tail(stocks_info), all_data, date, daily_value,
                              used)
            ELSE LET stock_data == DictGet(all_data, symbol)
                     closest_date_idx == idxmin(Distances(stock_data, date))
                     price == stock_data[closest_date_idx].Close
                 IN IF WithinTolerance(
                           Abs(stock_data[closest_date_idx].Date - date))
                    THEN HoldingsLoop(
                             Tail(stocks_info), all_data, date,
                             RatAdd(daily_value,
                                    RatMul(Num(price), stock_info.shares)),
                             DictSet(used, symbol, closest_date_idx))
                    ELSE [daily_value |-> daily_value, valid_date |-> FALSE,
                          used |-> used]

\* A date is kept whatever its value, unless the value is negative.
Emits_NonNegative(valid_date, daily_value) ==
    valid_date /\ ~RatLess(daily_value, Zero)

\* valid_date and daily_value > 0
Emits(valid_date, daily_value) == valid_date /\ RatLess(Zero, daily_value)

\* The loop over pd.date_range(start=date, end=max_date, freq='D')
RECURSIVE DateLoop(_, _, _, _)
DateLoop(date, max_date, all_data, stocks_info) ==
    IF date > max_date
    THEN [dates |-> <<>>, portfolio_values |-> <<>>, used |-> <<>>]
    ELSE LET rest == DateLoop(date + 1, max_date, all_data, stocks_info)
             day == HoldingsLoop(stocks_info, all_data, date, Zero, <<>>)
         IN IF weekday(date) < 5 /\ Emits(day.valid_date, day.daily_value)
            THEN [dates |-> <<date>> \o rest.dates,
                  portfolio_values |-> <<day.daily_value>> \o rest.portfolio_values,
                  used |-> <<day.used>> \o rest.used]
            ELSE rest

\* create_portfolio_performance_chart after the fetch: the two traces of the
\* figure (fig, None when no figure is returned), and for each point the rows
\* its value was read from (used).
PerformanceChart(all_data, stocks_info) ==
    IF all_data = <<>> THEN [fig |-> None, used |-> <<>>]
    ELSE LET range == CommonRange(all_data, None, None)
             loop == DateLoop(range.min_date[1], range.max_date[1], all_data,
                              stocks_info)
             portfolio_values == loop.portfolio_values
         IN IF portfolio_values = <<>> THEN [fig |-> None, used |-> <<>>]
            ELSE LET initial_value == portfolio_values[1]
                     pct_changes ==
                         [i \in DOMAIN portfolio_values |->
                             Times100(Div(RatSub(portfolio_values[i],
                                                 initial_value),
                                          initial_value))]
                 IN [fig |-> Some([dates |-> loop.dates,
                                   portfolio_values |-> portfolio_values,
                                   pct_changes |->
                                       IF Len(portfolio_values) > 1
                                       THEN Some(pct_changes) ELSE None]),
                     used |-> loop.used]

\* The series the provider answers a chart with; closes are whole numbers.
ChartRows ==
    {<<<<0, 10>>, <<1, 10>>, <<2, 110>>, <<3, 110>>, <<4, 10>>>>,
     <<<<7, 10>>, <<8, 110>>>>,
     <<<<0, 10>>, <<11, 110>>>>,
     <<<<0, 10>>, <<16, 110>>>>,
     <<<<0, 10>>, <<2, 110>>>>,
     <<<<0, 0>>, <<1, 10>>, <<2, 110>>>>}
ChartAnswers ==
    {[raise |-> TRUE, rows |-> <<>>], [raise |-> FALSE, rows |-> <<>>]}
    \cup {[raise |-> FALSE, rows |-> rows] : rows \in ChartRows}

NoChart == [op |-> "none", stocks_info |-> <<>>, all_data |-> <<>>,
            fig |-> None, used |-> <<>>]

\* The performance chart of show_portfolio_overview(portfolio_name)
CreatePortfolioPerformanceChart(portfolio_name) ==
    /\ portfolio_name \in DictKeys(portfolios)
    /\ DictGet(portfolios, portfolio_name).stocks # <<>>
    /\ \E answers \in [Symbols -> ChartAnswers] :
           LET stocks == DictGet(portfolios, portfolio_name).stocks
               symbols == [i \in DOMAIN stocks |-> stocks[i][1]]
               fetch == GetPortfolioHistoricalData(<<>>, symbols, "1y",
                                                   data_cache, answers, now)
               drawn == PerformanceChart(fetch.ret, stocks)
           IN /\ data_cache' = fetch.cache
              /\ gw' = [NoCall EXCEPT !.op = "get_portfolio_historical_data",
                                      !.ret = fetch.ret,
                                      !.raised = fetch.raised,
                                      !.exc = fetch.exc]
              /\ chart' = [op |-> "create_portfolio_performance_chart",
                           stocks_info |-> stocks, all_data |-> fetch.ret,
                           fig |-> drawn.fig, used |-> drawn.used]
    /\ UNCHANGED <<price_cache, fetched, portfolios, portfolios_file,
                   backup_file, db_portfolios, db_stocks, use_supabase, ops,
                   last, lots, view, clockVars>>

----------------------------------------------------------------------------
(* The store as a state machine *)

NoArgs == [name |-> "", symbol |-> "", shares |-> <<0, 1>>, avg_price |-> <<0, 1>>]
NoOp == [op |-> "none", args |-> NoArgs, ret |-> "None", wrote |-> "none"]

\* What earlier runs may have left in the store, in the layout of the file:
\* nothing, or portfolio A holding X and Y and an empty portfolio B.
StoredHolding(shares, avg_price) ==
    [shares |-> shares, avg_price |-> avg_price,
     last_updated |-> Isoformat(Datetime(0))]
StoredAtStart ==
    {<<>>,
     <<<<"A", [stocks |-> <<<<"X", StoredHolding(Num(1), Num(2))>>,
                            <<"Y", StoredHolding(Num(2), Num(4))>>>>,
               created_date |-> Isoformat(Datetime(0))]>>,
       <<"B", [stocks |-> <<>>, created_date |-> Isoformat(Datetime(0))]>>>>}

\* The first session of a run has loaded what the store holds.
StoreInitFrom(stored) ==
    LET rows == SM_migrate_rows({}, EmptyBag, stored, 0, {}) IN
    /\ portfolios_file = IF use_supabase \/ stored = <<>> THEN None
                         ELSE Some(stored)
    /\ backup_file = None
    /\ db_portfolios = IF use_supabase THEN rows.dbp ELSE {}
    /\ db_stocks = IF use_supabase THEN rows.dbs ELSE EmptyBag
    /\ portfolios = IF use_supabase THEN SM_load_portfolios(rows.dbp, rows.dbs)
                    ELSE PM_parse_portfolios(stored)
    /\ ops = 0
    /\ last = NoOp
    /\ lots = EmptyBag
    /\ view = NoView
    /\ chart = NoChart

\* Any backend call may raise (the connection drops, a statement fails).
Raises == IF use_supabase THEN {FALSE, TRUE} ELSE {FALSE}

Commit(op, args, r) ==
    /\ ops < MaxOps
    /\ ops' = ops + 1
    /\ portfolios' = r.portfolios
    /\ portfolios_file' = r.file
    /\ db_portfolios' = r.dbp
    /\ db_stocks' = r.dbs
    /\ last' = [op |-> op, args |-> args, ret |-> r.ret, wrote |-> r.wrote]
    /\ UNCHANGED <<use_supabase, backup_file, lots, view, chart, clockVars,
                   cacheVars>>

CreatePortfolio(name) ==
    \E raises \in Raises :
        Commit("create_portfolio", [NoArgs EXCEPT !.name = name],
               PM_create_portfolio(name, raises))

DeletePortfolio(name) ==
    \E raises \in Raises :
        Commit("delete_portfolio", [NoArgs EXCEPT !.name = name],
               PM_delete_portfolio(name, raises))

AddStock(portfolio_name, symbol, shares, avg_price) ==
    \E raises \in Raises :
        Commit("add_stock",
               [name |-> portfolio_name, symbol |-> symbol, shares |-> shares,
                avg_price |-> avg_price],
               PM_add_stock(portfolio_name, symbol, shares, avg_price, raises))

RemoveStock(portfolio_name, symbol) ==
    \E raises \in Raises :
        Commit("remove_stock",
               [NoArgs EXCEPT !.name = portfolio_name, !.symbol = symbol],
               PM_remove_stock(portfolio_name, symbol, raises))

UpdateStock(portfolio_name, symbol, shares, avg_price) ==
    \E raises \in Raises :
        Commit("update_stock",
               [name |-> portfolio_name, symbol |-> symbol, shares |-> shares,
                avg_price |-> avg_price],
               PM_update_stock(portfolio_name, symbol, shares, avg_price, raises))

\* The process is started again and a new session begins.
Restart ==
    \E failing \in (IF use_supabase /\ portfolios_file # None
                    THEN SUBSET DictKeys(portfolios_file[1]) ELSE {{}}) :
        LET r == PM_load_portfolios(failing) IN
        /\ portfolios' = r.portfolios
        /\ portfolios_file' = r.file
        /\ backup_file' = r.backup
        /\ db_portfolios' = r.dbp
        /\ db_stocks' = r.dbs
        /\ last' = [NoOp EXCEPT !.op = "load_portfolios"]
        /\ UNCHANGED <<use_supabase, ops, lots, view, chart, clockVars,
                       cacheVars>>

ClockAdvance ==
    /\ now + 1 \in Instants
    /\ now' = now + 1
    /\ UNCHANGED <<cacheVars, storeVars>>

Init ==
    /\ now = 0
    /\ GwInit
    /\ use_supabase \in BOOLEAN
    /\ \E stored \in StoredAtStart : StoreInitFrom(stored)

Next ==
    \/ \E name \in Names : CreatePortfolio(name)
    \/ \E name \in Names : DeletePortfolio(name)
    \/ \E name \in Names, symbol \in Symbols, shares \in SharesIn,
          avg_price \in AvgPricesIn : AddStock(name, symbol, shares, avg_price)
    \/ \E name \in Names, symbol \in Symbols : RemoveStock(name, symbol)
    \/ \E name \in Names, symbol \in Symbols, shares \in SharesIn,
          avg_price \in AvgPricesIn : UpdateStock(name, symbol, shares, avg_price)
    \/ Restart
    \/ ClockAdvance

Spec == Init /\ [][Next]_vars

----------------------------------------------------------------------------
(* The gateway alone *)

InitCache ==
    /\ now = 0
    /\ GwInit
    /\ use_supabase = FALSE
    /\ StoreInitFrom(<<>>)

NextCache ==
    \/ \E symbol \in GwSymbols : GetCurrentPriceCall(symbol)
    \/ ClearCache
    \/ Tick

SpecCache == InitCache /\ [][NextCache]_vars

----------------------------------------------------------------------------
(* Lots added to one position *)

LotPortfolio == "A"
LotSymbol == "X"

InitLots ==
    /\ now = 0
    /\ GwInit
    /\ use_supabase \in BOOLEAN
    /\ StoreInitFrom(<<<<LotPortfolio,
                         [stocks |-> <<>>,
                          created_date |-> Isoformat(Datetime(0))]>>>>)

\* add_stock(LotPortfolio, LotSymbol, shares, avg_price) for one more lot
AddLot(lot) ==
    /\ BagCardinality(lots) < MaxLots
    /\ \E raises \in Raises :
           LET r == PM_add_stock(LotPortfolio, LotSymbol, lot[1], lot[2], raises) IN
           /\ portfolios' = r.portfolios
           /\ portfolios_file' = r.file
           /\ db_portfolios' = r.dbp
           /\ db_stocks' = r.dbs
           /\ last' = [op |-> "add_stock",
                        args |-> [name |-> LotPortfolio, symbol |-> LotSymbol,
                                  shares |-> lot[1], avg_price |-> lot[2]],
                        ret |-> r.ret, wrote |-> r.wrote]
    /\ lots' = lots (+) SetToBag({lot})
    /\ UNCHANGED <<use_supabase, backup_file, ops, view, chart, clockVars,
                   cacheVars>>

NextLots ==
    \/ \E lot \in LotsIn : AddLot(lot)
    \/ ClockAdvance

SpecLots == InitLots /\ [][NextLots]_vars

----------------------------------------------------------------------------
(* Valuation of stored holdings *)

\* A portfolio holding X and Y, with shares and average prices that may be
\* zero, in the layout of the file.
ValueStored ==
    {<<<<"A", [stocks |-> <<<<"X", StoredHolding(sx, ax)>>,
                            <<"Y", StoredHolding(sy, ay)>>>>,
               created_date |-> Isoformat(Datetime(0))]>>>> :
        sx \in ValueSharesIn, ax \in ValueAvgPricesIn,
        sy \in ValueSharesIn, ay \in ValueAvgPricesIn}

InitValue ==
    /\ now = 0
    /\ GwInit
    /\ use_supabase = FALSE
    /\ \E stored \in ValueStored : StoreInitFrom(stored)

NextValue ==
    \/ \E name \in Names : ShowPortfolioOverview(name)
    \/ \E name \in Names : CalculatePortfolioValue(name)
    \/ ClearCache
    \/ ClockAdvance

SpecValue == InitValue /\ [][NextValue]_vars

----------------------------------------------------------------------------
(* The gateway's operations against a provider that may fail *)

GatewayStored ==
    <<<<"A", [stocks |-> <<<<"X", StoredHolding(Num(10), Num(100))>>,
                           <<"Y", StoredHolding(Num(10), Num(100))>>>>,
              created_date |-> Isoformat(Datetime(0))]>>>>

InitGateway ==
    /\ now = 0
    /\ GwInit
    /\ use_supabase = FALSE
    /\ StoreInitFrom(GatewayStored)

NextGateway ==
    \/ \E symbol \in Symbols, ans \in GatewayAnswers :
           GetCurrentPriceOn(symbol, ans)
    \/ \E symbol \in Symbols, period \in Periods :
           GetHistoricalDataCall(symbol, period)
    \/ \E symbol \in Symbols : GetStockInfoCall(symbol)
    \/ \E symbol \in Symbols : ValidateSymbolCall(symbol)
    \/ \E symbols \in SymbolLists : GetMultiplePricesCall(symbols)
    \/ \E name \in Names, answers \in [Symbols -> BatchAnswers] :
           CalculatePortfolioValueOn(name, answers)
    \/ \E symbols \in SymbolLists, period \in Periods :
           GetPortfolioHistoricalDataCall(symbols, period)
    \/ ClearCache

SpecGateway == InitGateway /\ [][NextGateway]_vars

----------------------------------------------------------------------------
(* Charting a stored portfolio *)

ChartSharesIn == {<<0, 1>>, <<1, 1>>, <<2, 1>>}
ChartStored ==
    {<<<<"A", [stocks |-> <<<<"X", StoredHolding(sx, Num(100))>>,
                            <<"Y", StoredHolding(sy, Num(100))>>>>,
               created_date |-> Isoformat(Datetime(0))]>>>> :
        sx \in ChartSharesIn, sy \in ChartSharesIn}

InitChart ==
    /\ now = 0
    /\ GwInit
    /\ use_supabase = FALSE
    /\ \E stored \in ChartStored : StoreInitFrom(stored)

NextChart ==
    \/ \E name \in Names : CreatePortfolioPerformanceChart(name)
    \/ ClearCache

SpecChart == InitChart /\ [][NextChart]_vars

----------------------------------------------------------------------------
(* Claims about the price cache *)

\* The age, in whole seconds, of the cache entry of a symbol.
EntryAge(symbol) == now - price_cache[symbol].timestamp

\* C1: get_current_price(s) answers from the cache, without querying the
\* provider, only when an entry for s exists and is strictly younger than
\* 300 seconds; at every age of 300 seconds or more, however large, the call
\* queries the provider and returns and caches what the provider gives.
C1_CacheOnlyWhenYoung ==
    [][\A s \in GwSymbols :
          GetCurrentPriceCall(s) =>
              /\ ~gw'.queried =>
                     s \in DOMAIN price_cache /\ EntryAge(s) < cache_duration
              /\ (s \in DOMAIN price_cache /\ EntryAge(s) >= cache_duration) =>
                     /\ gw'.queried
                     /\ gw'.ret = gw'.offered
                     /\ gw'.ret # None =>
                            price_cache'[s] = [price |-> gw'.ret[1],
                                               timestamp |-> now]]_vars

\* C2: after a call that obtained price p for s from the provider at time t,
\* every later call for s at a time in [t, t + 300) returns p and does not
\* query the provider, whatever the provider would answer, as long as
\* clear_cache was not called in between.
C2_CachedWithinTTL ==
    [][\A s \in GwSymbols :
          (/\ GetCurrentPriceCall(s)
           /\ s \in DOMAIN fetched
           /\ now - fetched[s].at < cache_duration) =>
              /\ gw'.ret = Some(fetched[s].price)
              /\ ~gw'.queried
              /\ price_cache' = price_cache]_vars

\* C2 witness: a call answered from the cache, some seconds after the fetch,
\* while the provider would have given another price.
C2_Witness ==
    /\ gw.op = "get_current_price"
    /\ ~gw.queried
    /\ gw.offered # None
    /\ gw.offered # gw.ret
    /\ gw.symbol \in DOMAIN fetched
    /\ now - fetched[gw.symbol].at = cache_duration - 1

----------------------------------------------------------------------------
(* Claims about the portfolio store *)

\* Whether a portfolio of the session holds a symbol, and its position.
Holds(session_portfolios, portfolio_name, symbol) ==
    /\ portfolio_name \in DictKeys(session_portfolios)
    /\ symbol \in DictKeys(DictGet(session_portfolios, portfolio_name).stocks)

Position(session_portfolios, portfolio_name, symbol) ==
    DictGet(DictGet(session_portfolios, portfolio_name).stocks, symbol)

\* A step of one of the five mutating operations, and of a given one.
Mutation == ops' = ops + 1
Did(op) == Mutation /\ last'.op = op

\* C3: when the backing-store write of a mutating operation fails, the
\* in-memory portfolios are what they were before the operation.
C3_FailedWriteLeavesMemory ==
    [][(Mutation /\ last'.wrote = "failed") => portfolios' = portfolios]_vars

\* What a flat-file round trip has to preserve: the portfolios, their
\* created_date, their symbols and each holding's shares and avg_price.
Content(session_portfolios) ==
    [n \in DictKeys(session_portfolios) |->
        LET portfolio == DictGet(session_portfolios, n) IN
        [created_date |-> portfolio.created_date.t,
         stocks |-> [s \in DictKeys(portfolio.stocks) |->
                        [shares |-> DictGet(portfolio.stocks, s).shares,
                         avg_price |-> DictGet(portfolio.stocks, s).avg_price]]]]

\* C4: in flat-file mode, saving the in-memory portfolios and loading them
\* into a fresh session gives the same portfolios, symbols, shares,
\* avg_price and created_date as were in memory before the save.
C4_FlatFileRoundTrip ==
    ~use_supabase =>
        LET saved == PM_save_portfolios(portfolios, portfolios_file)
            loaded == IF saved.file # None
                      THEN PM_parse_portfolios(saved.file[1])
                      ELSE <<>>
        IN Content(loaded) = Content(portfolios)

\* The holdings the backing store keeps for a portfolio name.
StoredHoldings(portfolio_name) ==
    IF use_supabase
    THEN {stock \in BagToSet(db_stocks) :
             \E portfolio \in db_portfolios :
                 /\ portfolio.name = portfolio_name
                 /\ stock.portfolio_id = portfolio.id}
    ELSE IF portfolios_file # None /\ portfolio_name \in DictKeys(portfolios_file[1])
         THEN {DictGet(portfolios_file[1], portfolio_name).stocks[i] :
                  i \in DOMAIN DictGet(portfolios_file[1], portfolio_name).stocks}
         ELSE {}

\* C5: after delete_portfolio(n) returned True the summary of n is None, no
\* holding of n remains in memory or in the backing store, and a later
\* create_portfolio(n) gives a portfolio without holdings.
C5_DeleteCascades ==
    [][\A n \in Names :
          (Did("delete_portfolio") /\ last'.args.name = n /\ last'.ret = "True") =>
              /\ PM_get_portfolio_summary(portfolios', n) = None
              /\ n \notin DictKeys(portfolios')
              /\ StoredHoldings(n)' = {}
              /\ LET created == PM_create_portfolio(n, FALSE)' IN
                 /\ created.ret = "True"
                 /\ DictGet(created.portfolios, n).stocks = <<>>]_vars

\* No portfolio name occurs twice, in memory, in the file or in the table.
UniqueNames ==
    /\ \A i, j \in DOMAIN portfolios :
           portfolios[i][1] = portfolios[j][1] => i = j
    /\ portfolios_file # None =>
           \A i, j \in DOMAIN portfolios_file[1] :
               portfolios_file[1][i][1] = portfolios_file[1][j][1] => i = j
    /\ \A p, q \in db_portfolios : p.name = q.name => p = q

\* C6: create_portfolio(n) on an existing n returns False and changes
\* nothing, so that the portfolio keeps its holdings and created_date; on a
\* new n it adds a portfolio without holdings and returns True; names stay
\* unique.
C6_CreateRejectsDuplicate ==
    [][Did("create_portfolio") =>
          LET n == last'.args.name IN
          /\ IF n \in DictKeys(portfolios)
             THEN /\ last'.ret = "False"
                  /\ portfolios' = portfolios
                  /\ portfolios_file' = portfolios_file
                  /\ db_portfolios' = db_portfolios
                  /\ db_stocks' = db_stocks
             ELSE /\ last'.ret = "True"
                  /\ DictKeys(portfolios') = DictKeys(portfolios) \cup {n}
                  /\ DictGet(portfolios', n).stocks = <<>>
          /\ UniqueNames']_vars

\* C6 witness: a create_portfolio turned down while a portfolio has holdings.
C6_Witness ==
    /\ last.op = "create_portfolio"
    /\ last.ret = "False"
    /\ \E i \in DOMAIN portfolios : portfolios[i][2].stocks # <<>>

\* The shares and average price of a symbol in memory and in the tables,
\* None when it is not held.
HeldPosition(session_portfolios, portfolio_name, symbol) ==
    IF Holds(session_portfolios, portfolio_name, symbol)
    THEN Some([shares |-> Position(session_portfolios, portfolio_name,
                                   symbol).shares,
               avg_price |-> Position(session_portfolios, portfolio_name,
                                      symbol).avg_price])
    ELSE None

StoredPosition(dbp, dbs, portfolio_name, symbol) ==
    LET portfolio == PortfolioByName(dbp, portfolio_name) IN
    IF portfolio = None THEN None
    ELSE LET stock == First(StockRows(dbs, portfolio[1].id, symbol)) IN
         IF stock = None THEN None
         ELSE Some([shares |-> stock[1].shares,
                    avg_price |-> stock[1].avg_price])

C9_UpdateReplaces ==
    [][Did("update_stock") =>
          LET n == last'.args.name
              s == last'.args.symbol
              k == last'.args.shares
              c == last'.args.avg_price
          IN IF Holds(portfolios, n, s)
             THEN /\ last'.ret = "True"
                  /\ Holds(portfolios', n, s)
                  /\ Position(portfolios', n, s).shares = k
                  /\ Position(portfolios', n, s).avg_price = c
                  /\ DictKeys(portfolios') = DictKeys(portfolios)
                  /\ \A m \in DictKeys(portfolios) :
                         /\ DictGet(portfolios', m).created_date
                                = DictGet(portfolios, m).created_date
                         /\ DictKeys(DictGet(portfolios', m).stocks)
                                = DictKeys(DictGet(portfolios, m).stocks)
                         /\ \A x \in DictKeys(DictGet(portfolios, m).stocks) :
                                <<m, x>> # <<n, s>> =>
                                    Position(portfolios', m, x)
                                        = Position(portfolios, m, x)
             ELSE /\ last'.ret = "False"
                  /\ portfolios' = portfolios
                  /\ portfolios_file' = portfolios_file
                  /\ db_portfolios' = db_portfolios
                  /\ db_stocks' = db_stocks]_vars

----------------------------------------------------------------------------
(* Claims about lots and valuation *)

\* The shares of a bag of lots, and what they cost.
RECURSIVE LotShares(_)
LotShares(B) ==
    IF B = EmptyBag THEN Zero
    ELSE LET lot == CHOOSE l \in BagToSet(B) : TRUE IN
         RatAdd(lot[1], LotShares(B (-) SetToBag({lot})))

RECURSIVE LotCost(_)
LotCost(B) ==
    IF B = EmptyBag THEN Zero
    ELSE LET lot == CHOOSE l \in BagToSet(B) : TRUE IN
         RatAdd(RatMul(lot[1], lot[2]), LotCost(B (-) SetToBag({lot})))

C10_ZeroCostZeroPct ==
    /\ ~view.raised
    /\ view.errors = {}
    /\ \A i \in DOMAIN view.portfolio_data :
           view.portfolio_data[i].cost_basis = Zero =>
               view.portfolio_data[i].gain_loss_pct = Zero
    /\ (view.summary # None /\ view.summary[1].total_cost = Zero) =>
           view.summary[1].total_gain_loss_pct = Zero
    /\ (view.op = "calculate_portfolio_value") => view.summary # None

\* C10 witness: an overview of holdings that cost nothing and are worth
\* something.
C10_Witness ==
    /\ view.op = "show_portfolio_overview"
    /\ view.summary # None
    /\ view.summary[1].total_cost = Zero
    /\ view.summary[1].total_value # Zero
    /\ \E i \in DOMAIN view.portfolio_data :
           /\ view.portfolio_data[i].cost_basis = Zero
           /\ view.portfolio_data[i].gain_loss # Zero

\* The holdings of the last valuation that the gateway gave a price for, and
\* what they are worth and cost.
Priced == {i \in DOMAIN view.prices : view.prices[i][2] # None}

RECURSIVE WorthOf(_)
WorthOf(I) ==
    IF I = {} THEN Zero
    ELSE LET i == CHOOSE j \in I : TRUE IN
         RatAdd(RatMul(Num(view.prices[i][2][1]), view.stocks[i][2].shares),
                WorthOf(I \ {i}))

RECURSIVE CostOf(_)
CostOf(I) ==
    IF I = {} THEN Zero
    ELSE LET i == CHOOSE j \in I : TRUE IN
         RatAdd(RatMul(view.stocks[i][2].avg_price, view.stocks[i][2].shares),
                CostOf(I \ {i}))

\* C11: in a valuation total_value is the sum of price*shares and
\* total_cost the sum of avg_price*shares over exactly the holdings that
\* have a price; total_gain_loss is their difference and, when total_cost
\* is positive, total_gain_loss_pct is total_gain_loss/total_cost*100.  The
\* overview shows one row for each priced holding.
C11_TotalsOverPriced ==
    /\ view.summary # None =>
           LET summary == view.summary[1] IN
           /\ summary.total_value = WorthOf(Priced)
           /\ summary.total_cost = CostOf(Priced)
           /\ summary.total_gain_loss = RatSub(WorthOf(Priced), CostOf(Priced))
           /\ RatLess(Zero, summary.total_cost) =>
                  summary.total_gain_loss_pct
                      = RatMul(RatDiv(summary.total_gain_loss,
                                      summary.total_cost), Num(100))
    /\ view.op = "calculate_portfolio_value" => view.summary # None
    /\ view.op = "show_portfolio_overview" =>
           /\ {view.portfolio_data[i].Symbol : i \in DOMAIN view.portfolio_data}
                  = {view.prices[i][1] : i \in Priced}
           /\ Len(view.portfolio_data) = Cardinality(Priced)
           /\ (view.summary # None) = (Priced # {})

\* C11 witness: 10 shares at 100 priced 110, next to a holding without a
\* price, valued 1100, 1000, 100 and 10 percent.
C11_Witness ==
    /\ view.op = "calculate_portfolio_value"
    /\ Cardinality(Priced) = 1
    /\ Len(view.prices) = 2
    /\ view.summary = Some([total_value |-> Num(1100), total_cost |-> Num(1000),
                            total_gain_loss |-> Num(100),
                            total_gain_loss_pct |-> Num(10)])

\* C12: in a valuation every holding without a price has an error naming
\* it reported, is left out of the totals, and the other holdings are
\* valued.
C12_UnpricedReported ==
    /\ \A i \in DOMAIN view.prices :
           view.prices[i][2] = None => view.prices[i][1] \in view.reported
    /\ view.summary # None =>
           /\ view.summary[1].total_value = WorthOf(Priced)
           /\ view.summary[1].total_cost = CostOf(Priced)

----------------------------------------------------------------------------
(* Claims about the gateway's failure handling *)

GatewayOps ==
    {"get_current_price", "get_historical_data", "get_stock_info",
     "validate_symbol", "get_multiple_prices", "calculate_portfolio_value",
     "get_portfolio_historical_data"}

\* The last call gave its no-data value for symbol s: None, False, s left out
\* of the returned dict, or s left out of the totals.
NoData(s) ==
    CASE gw.op \in {"get_current_price", "get_historical_data",
                    "get_stock_info"} -> gw.symbol = s /\ gw.ret = None
      [] gw.op = "validate_symbol" -> gw.symbol = s /\ gw.ret = FALSE
      [] gw.op \in {"get_multiple_prices", "get_portfolio_historical_data"} ->
             s \notin DictKeys(gw.ret)
      [] gw.op = "calculate_portfolio_value" ->
             /\ view.op = "calculate_portfolio_value"
             /\ \A i \in DOMAIN view.prices :
                    view.prices[i][1] = s => i \notin Priced
             /\ view.summary # None
             /\ view.summary[1].total_value = WorthOf(Priced)
             /\ view.summary[1].total_cost = CostOf(Priced)

\* What the two caches hold for symbol s.
CacheEntries(s) ==
    <<IF s \in DOMAIN price_cache THEN Some(price_cache[s]) ELSE None,
      [period \in Periods |->
          IF cache_key(s, period) \in DOMAIN data_cache
          THEN Some(data_cache[cache_key(s, period)]) ELSE None]>>

\* C13 as stated: no gateway operation lets a provider exception out; whenever
\* the provider raises during a call, the operation gives its no-data value
\* for that symbol and both caches are left as they were.
C13_RaiseLeavesCaches ==
    [][gw'.op \in GatewayOps =>
          /\ ~gw'.exc
          /\ \A s \in Symbols :
                 s \in gw'.raised =>
                     /\ NoData(s)'
                     /\ price_cache' = price_cache
                     /\ data_cache' = data_cache]_vars

\* C13 amended: no gateway operation lets a provider exception out; whenever
\* the provider raises for a symbol during a call, the operation gives its
\* no-data value for that symbol and what the caches hold for that symbol is
\* left as it was; an operation on a single symbol leaves both caches as they
\* were.
C13_RaiseLeavesEntries ==
    [][gw'.op \in GatewayOps =>
          /\ ~gw'.exc
          /\ \A s \in Symbols :
                 s \in gw'.raised =>
                     /\ NoData(s)'
                     /\ CacheEntries(s)' = CacheEntries(s)
                     /\ gw'.symbol = s =>
                            /\ price_cache' = price_cache
                            /\ data_cache' = data_cache]_vars

\* A batch in which the provider raised for one symbol and priced another.
C13_Witness ==
    /\ gw.op = "get_multiple_prices"
    /\ gw.raised = {"Y"}
    /\ DictKeys(gw.ret) = {"X"}
    /\ "X" \in DOMAIN price_cache
    /\ "Y" \notin DOMAIN price_cache

\* C14: validate_symbol(s) returns true exactly when the provider yields a
\* non-null price field or at least one daily bar for s, that is, exactly when
\* an uncached get_current_price(s) against the same answer returns a price.
C14_ValidIffPriced ==
    gw.op = "validate_symbol" => (gw.ret <=> gw.offered # None)

----------------------------------------------------------------------------
(* Claims about the performance series *)

Drawn == chart.op = "create_portfolio_performance_chart"
Held == DictKeys(chart.stocks_info)
Fetched == DictKeys(chart.all_data)
SeriesOf(symbol) == DictGet(chart.all_data, symbol)

\* The points of the series: none when no figure was returned.
Points == IF chart.fig = None THEN {} ELSE DOMAIN chart.fig[1].dates
DateAt(i) == chart.fig[1].dates[i]
ValueAt(i) == chart.fig[1].portfolio_values[i]
EmittedDates == {DateAt(i) : i \in Points}

\* C15: when some held symbol has no historical data, the performance series
\* is empty, whatever data the other held symbols have.
C15_MissingSeriesEmpty ==
    (Drawn /\ \E symbol \in Held : symbol \notin Fetched) => Points = {}

\* The window: from the latest first date to the earliest last date of the
\* fetched series.
WindowStart == SetMax({SetMin(DatesOf(SeriesOf(symbol))) : symbol \in Fetched})
WindowEnd == SetMin({SetMax(DatesOf(SeriesOf(symbol))) : symbol \in Fetched})
Weekdays(start, end) == {date \in start..end : date % 7 \in 0..4}

\* C16: every emitted date is a weekday of [start, end], start the latest
\* first date and end the earliest last date of the fetched series; the
\* emitted dates are strictly ascending; there are at most as many points as
\* weekdays in [start, end]; when start > end nothing is emitted.
C16_WindowOfWeekdays ==
    (Drawn /\ Fetched # {}) =>
        /\ EmittedDates \subseteq Weekdays(WindowStart, WindowEnd)
        /\ \A i, j \in Points : i < j => DateAt(i) < DateAt(j)
        /\ Cardinality(Points) <= Cardinality(Weekdays(WindowStart, WindowEnd))
        /\ WindowStart > WindowEnd => Points = {}

\* Two series that overlap on the weekdays 0..4 only, and a point for each.
C16_Witness ==
    /\ Drawn
    /\ Fetched = {"X", "Y"}
    /\ SeriesOf("X") # SeriesOf("Y")
    /\ WindowStart = 0
    /\ WindowEnd = 4
    /\ EmittedDates = 0..4

\* How far, in days, the closest date of a symbol's series is from a date.
ClosestDistance(symbol, date) ==
    SetMin({Abs(row_date - date) : row_date \in DatesOf(SeriesOf(symbol))})

\* The row a point's value was read from for a symbol, and its part of the
\* value.
RowUsed(i, symbol) == SeriesOf(symbol)[DictGet(chart.used[i], symbol)]
SharesOf(symbol) == DictGet(chart.stocks_info, symbol).shares
RECURSIVE SumOfParts(_, _)
SumOfParts(i, symbols) ==
    IF symbols = {} THEN Zero
    ELSE LET symbol == CHOOSE x \in symbols : TRUE
         IN RatAdd(RatMul(Num(RowUsed(i, symbol).Close), SharesOf(symbol)),
                   SumOfParts(i, symbols \ {symbol}))

\* C17: a date is emitted only if every holding has its closest series date
\* at most 7 days away; a date for which some holding's closest date is more
\* than 7 days away is not emitted; the emitted value is the sum over all
\* holdings of the close at the closest date times the shares.
C17_ToleranceAndSum ==
    (Drawn /\ Fetched # {}) =>
        /\ \A i \in Points :
               /\ \A symbol \in Held :
                      /\ symbol \in Fetched
                      /\ ClosestDistance(symbol, DateAt(i)) <= 7
                      /\ Abs(RowUsed(i, symbol).Date - DateAt(i)) =
                             ClosestDistance(symbol, DateAt(i))
               /\ ValueAt(i) = SumOfParts(i, Held)
        /\ \A date \in Weekdays(WindowStart, WindowEnd) :
               (\E symbol \in Held \cap Fetched :
                    ClosestDistance(symbol, date) > 7) => date \notin EmittedDates

\* The same with every holding's series fetched.
ToleranceAndSumOfFetched ==
    (Drawn /\ Fetched # {} /\ Held \subseteq Fetched) => C17_ToleranceAndSum

\* The pairs of dates of a series with days without data between them.
Gaps(symbol) ==
    {gap \in DatesOf(SeriesOf(symbol)) \X DatesOf(SeriesOf(symbol)) :
        /\ gap[1] + 1 < gap[2]
        /\ \A date \in DatesOf(SeriesOf(symbol)) :
               date <= gap[1] \/ date >= gap[2]}

\* C18 as stated: no point is emitted for a weekday inside a gap of 10
\* calendar days in the series of a held symbol.
C18_NoPointInTenDayGap ==
    Drawn =>
        \A symbol \in Held \cap Fetched : \A gap \in Gaps(symbol) :
            gap[2] - gap[1] - 1 = 10 =>
                \A date \in (gap[1] + 1)..(gap[2] - 1) :
                    date % 7 \in 0..4 => date \notin EmittedDates

\* C18 amended: no point is emitted for a date inside a gap in the series of
\* a held symbol that is more than 7 days from both ends of the gap; such
\* dates exist only in gaps of 15 days or more.
C18_NoPointFarInsideGap ==
    Drawn =>
        \A symbol \in Held \cap Fetched : \A gap \in Gaps(symbol) :
            \A date \in (gap[1] + 1)..(gap[2] - 1) :
                (date - gap[1] > 7 /\ gap[2] - date > 7) =>
                    /\ gap[2] - gap[1] - 1 >= 15
                    /\ date \notin EmittedDates

\* A series with a gap of 15 days charted: the weekday in the middle has no
\* point, the weekday before it has one.
C18_Witness ==
    /\ Drawn
    /\ \E symbol \in Held \cap Fetched :
           /\ <<0, 16>> \in Gaps(symbol)
           /\ WindowStart = 0
           /\ WindowEnd = 16
    /\ 8 \notin EmittedDates
    /\ 7 \in EmittedDates

\* C19: when a point's date is equally far from an earlier and a later date
\* of a symbol's series, and no date is closer, the price used is the close
\* of the earlier date.
C19_TieTakesEarlier ==
    Drawn =>
        \A i \in Points : \A symbol \in Held \cap Fetched :
            \A earlier, later \in DOMAIN SeriesOf(symbol) :
                (/\ SeriesOf(symbol)[earlier].Date < DateAt(i)
                 /\ DateAt(i) < SeriesOf(symbol)[later].Date
                 /\ DateAt(i) - SeriesOf(symbol)[earlier].Date =
                        SeriesOf(symbol)[later].Date - DateAt(i)
                 /\ DateAt(i) - SeriesOf(symbol)[earlier].Date =
                        ClosestDistance(symbol, DateAt(i)))
                => /\ RowUsed(i, symbol) = SeriesOf(symbol)[earlier]
                   /\ ValueAt(i) = SumOfParts(i, Held \cap Fetched)

\* A point on day 1 of a series with closes 10 on day 0 and 110 on day 2,
\* valued at 10 a share.
C19_Witness ==
    /\ Drawn
    /\ Fetched = {"X"}
    /\ SeriesOf("X") = <<[Date |-> 0, Close |-> 10], [Date |-> 2, Close |-> 110]>>
    /\ SharesOf("X") = Num(2)
    /\ \E i \in Points : DateAt(i) = 1 /\ ValueAt(i) = Num(20)

\* C20: every emitted value is strictly positive; the percent changes are
\* (value[i] - value[0]) / value[0] * 100 with value[0] the first emitted
\* value, and no division is by zero.
C20_PercentOfFirstEmitted ==
    (Drawn /\ Points # {}) =>
        /\ \A i \in Points : ValueAt(i)[1] > 0 /\ ValueAt(i)[2] > 0
        /\ Cardinality(Points) > 1 =>
               /\ chart.fig[1].pct_changes # None
               /\ \A i \in Points :
                      /\ chart.fig[1].pct_changes[1][i] # ZeroDivisionError
                      /\ chart.fig[1].pct_changes[1][i] =
                             RatMul(RatDiv(RatSub(ValueAt(i), ValueAt(1)),
                                           ValueAt(1)),
                                    Num(100))

\* The window starts on a day that is skipped (its value is 0); the baseline
\* is the value of the next day, 10 a share, and the day after is 1000% up.
C20_Witness ==
    /\ Drawn
    /\ Fetched = {"X"}
    /\ WindowStart = 0
    /\ Points = 1..2
    /\ DateAt(1) = 1
    /\ ValueAt(1) = Num(10)
    /\ chart.fig[1].pct_changes = Some(<<Zero, Num(1000)>>)

----------------------------------------------------------------------------
(* Moving from the flat file to the database *)

\* The names, symbols, shares and avg_price of a set of portfolios.
Holdings(session_portfolios) ==
    [n \in DictKeys(session_portfolios) |->
        LET stocks == DictGet(session_portfolios, n).stocks IN
        [s \in DictKeys(stocks) |->
            [shares |-> DictGet(stocks, s).shares,
             avg_price |-> DictGet(stocks, s).avg_price]]]

\* The process is started again after a database was configured: __init__
\* finds is_connected() true and load_portfolios() takes the database
\* branch, which migrates the flat file the earlier runs left.
Connect ==
    /\ ~use_supabase
    /\ use_supabase' = TRUE
    /\ \E failing \in (IF portfolios_file # None
                       THEN SUBSET DictKeys(portfolios_file[1]) ELSE {{}}) :
          LET r == PM_load_portfolios_as(TRUE, failing) IN
          /\ portfolios' = r.portfolios
          /\ portfolios_file' = r.file
          /\ backup_file' = r.backup
          /\ db_portfolios' = r.dbp
          /\ db_stocks' = r.dbs
          /\ last' = [NoOp EXCEPT !.op = "load_portfolios"]
    /\ UNCHANGED <<ops, lots, view, chart, clockVars, cacheVars>>

InitMigrate ==
    /\ now = 0
    /\ GwInit
    /\ use_supabase = FALSE
    /\ \E stored \in StoredAtStart : StoreInitFrom(stored)

NextMigrate ==
    \/ \E name \in Names : CreatePortfolio(name)
    \/ \E name \in Names : DeletePortfolio(name)
    \/ \E name \in Names, symbol \in Symbols, shares \in SharesIn,
          avg_price \in AvgPricesIn : AddStock(name, symbol, shares, avg_price)
    \/ \E name \in Names, symbol \in Symbols : RemoveStock(name, symbol)
    \/ \E name \in Names, symbol \in Symbols, shares \in SharesIn,
          avg_price \in AvgPricesIn : UpdateStock(name, symbol, shares, avg_price)
    \/ Restart
    \/ Connect

SpecMigrate == InitMigrate /\ [][NextMigrate]_vars

\* A start of the process in database mode: load_portfolios() has run.
Loaded == last'.op = "load_portfolios" /\ use_supabase'

\* Every portfolio of a flat file is in the tables with the file's holdings.
WrittenAll(file, dbp, dbs) ==
    LET wanted == Holdings(PM_parse_portfolios(file[1]))
        got == Holdings(SM_load_portfolios(dbp, dbs))
    IN \A n \in DOMAIN wanted : n \in DOMAIN got /\ got[n] = wanted[n]

\* C21: migrate_from_json renames the flat file to its backup name only
\* when every portfolio of the file was written; when a write failed the
\* file keeps its name; and with the file absent a further migration
\* returns False and changes neither the tables nor the files.
C21_BackupOnlyWhenAllWritten ==
    [][Loaded =>
         /\ (portfolios_file # None /\ portfolios_file' = None)
               => WrittenAll(portfolios_file, db_portfolios', db_stocks')
         /\ (portfolios_file # None
               /\ ~WrittenAll(portfolios_file, db_portfolios', db_stocks'))
               => (portfolios_file' = portfolios_file
                     /\ backup_file' = backup_file)
         /\ portfolios_file = None
               => /\ ~SM_migrate_from_json(db_portfolios, db_stocks,
                                           portfolios_file, now, {}).ok
                  /\ db_portfolios' = db_portfolios
                  /\ db_stocks' = db_stocks
                  /\ portfolios_file' = None
                  /\ backup_file' = backup_file]_vars

----------------------------------------------------------------------------
(* The two backends under the same operations *)

\* The backend delivered what the operation wrote: no database call of the
\* step raised.  A flat-file write that fails does so inside save_portfolios
\* and stays part of the behaviour.
Delivered == use_supabase => last'.wrote # "failed"

InitBackends == Init

NextBackends ==
    \/ (\E name \in Names : CreatePortfolio(name)) /\ Delivered
    \/ (\E name \in Names : DeletePortfolio(name)) /\ Delivered
    \/ (\E name \in Names, symbol \in Symbols, shares \in SharesIn,
           avg_price \in AvgPricesIn :
              AddStock(name, symbol, shares, avg_price)) /\ Delivered
    \/ (\E name \in Names, symbol \in Symbols : RemoveStock(name, symbol))
          /\ Delivered
    \/ (\E name \in Names, symbol \in Symbols, shares \in SharesIn,
           avg_price \in AvgPricesIn :
              UpdateStock(name, symbol, shares, avg_price)) /\ Delivered
    \/ Restart
    \/ ClockAdvance

SpecBackends == InitBackends /\ [][NextBackends]_vars

\* What a fresh session loads from the backing store of the running mode.
Reloaded == PM_load_portfolios({}).portfolios

\* C22: the flat-file backend and the relational backend are observably
\* the same: after any sequence of operations the state reloaded from
\* either holds the names, symbols, shares and avg_price the operations
\* produced.  The in-memory change of every operation is made before the
\* branch on the backend, so the two reloaded states agree exactly when
\* each agrees with the holdings in memory.
C22_BackendsReloadSame == Holdings(Reloaded) = Holdings(portfolios)

----------------------------------------------------------------------------
(* The handlers of the page *)

\* What a handler of app.py leaves in st.session_state.portfolios; none of
\* them calls the PortfolioManager, so the file and the tables stay.
Handled(op, args, session_portfolios) ==
    /\ ops < MaxOps
    /\ ops' = ops + 1
    /\ portfolios' = session_portfolios
    /\ last' = [op |-> op, args |-> args, ret |-> "None", wrote |-> "none"]
    /\ UNCHANGED <<portfolios_file, backup_file, db_portfolios, db_stocks,
                   use_supabase, lots, view, chart, clockVars>>

\* "Create Portfolio" (lines 67-76)
App_create_portfolio(new_portfolio_name) ==
    /\ Handled("app_create_portfolio",
               [NoArgs EXCEPT !.name = new_portfolio_name],
               IF new_portfolio_name \notin DictKeys(portfolios)
               THEN DictSet(portfolios, new_portfolio_name,
                            [stocks |-> <<>>, created_date |-> Datetime(now)])
               ELSE portfolios)
    /\ UNCHANGED cacheVars

\* "Delete Selected Portfolio" (lines 91-98)
App_delete_portfolio(selected_portfolio) ==
    /\ selected_portfolio \in DictKeys(portfolios)
    /\ Handled("app_delete_portfolio",
               [NoArgs EXCEPT !.name = selected_portfolio],
               IF Len(portfolios) > 1 THEN DictDel(portfolios, selected_portfolio)
               ELSE portfolios)
    /\ UNCHANGED cacheVars

\* lines 317-338: the position written for a symbol the price of which was
\* found
App_added(portfolio_name, stock_symbol, shares, avg_price) ==
    LET portfolio == DictGet(portfolios, portfolio_name)
        merged == PM_merged_position(DictGet(portfolio.stocks, stock_symbol),
                                     shares, avg_price)
        position == IF stock_symbol \in DictKeys(portfolio.stocks)
                    THEN [shares |-> merged.shares,
                          avg_price |-> merged.avg_price,
                          last_updated |-> Datetime(now)]
                    ELSE [shares |-> shares, avg_price |-> avg_price,
                          last_updated |-> Datetime(now)]
    IN DictSet(portfolios, portfolio_name,
               [portfolio EXCEPT !.stocks = DictSet(@, stock_symbol, position)])

\* "Add Stock" (lines 312-345): the symbol is validated by a call of
\* get_current_price, which the provider answers with ans
App_add_stock(portfolio_name, stock_symbol, shares, avg_price, ans) ==
    LET r == GetCurrentPrice(price_cache, stock_symbol, now, ans) IN
    /\ portfolio_name \in DictKeys(portfolios)
    /\ RatLess(Zero, shares) /\ RatLess(Zero, avg_price)
    /\ Handled("app_add_stock",
               [name |-> portfolio_name, symbol |-> stock_symbol,
                shares |-> shares, avg_price |-> avg_price],
               IF r.ret # None
               THEN App_added(portfolio_name, stock_symbol, shares, avg_price)
               ELSE portfolios)
    /\ price_cache' = r.cache
    /\ gw' = [op |-> "get_current_price", symbol |-> stock_symbol,
              ret |-> r.ret, queried |-> r.queried, offered |-> Offered(ans),
              raised |-> IF r.error THEN {stock_symbol} ELSE {}, exc |-> r.exc]
    /\ data_cache' = data_cache
    /\ fetched' = IF r.queried /\ r.ret # None
                  THEN (stock_symbol :> [price |-> r.ret[1], at |-> now])
                       @@ fetched
                  ELSE fetched

\* "Update" of a holding shown (lines 410-417)
App_update_stock(portfolio_name, symbol, new_shares, new_avg_price) ==
    /\ Holds(portfolios, portfolio_name, symbol)
    /\ Handled("app_update_stock",
               [name |-> portfolio_name, symbol |-> symbol,
                shares |-> new_shares, avg_price |-> new_avg_price],
               LET portfolio == DictGet(portfolios, portfolio_name) IN
               DictSet(portfolios, portfolio_name,
                       [portfolio EXCEPT !.stocks =
                          DictSet(@, symbol,
                                  [shares |-> new_shares,
                                   avg_price |-> new_avg_price,
                                   last_updated |-> Datetime(now)])]))
    /\ UNCHANGED cacheVars

\* "Remove" of a holding shown (lines 421-424)
App_remove_stock(portfolio_name, symbol) ==
    /\ Holds(portfolios, portfolio_name, symbol)
    /\ Handled("app_remove_stock",
               [NoArgs EXCEPT !.name = portfolio_name, !.symbol = symbol],
               LET portfolio == DictGet(portfolios, portfolio_name) IN
               DictSet(portfolios, portfolio_name,
                       [portfolio EXCEPT !.stocks = DictDel(@, symbol)]))
    /\ UNCHANGED cacheVars

\* The provider knows the symbol typed, or does not.
AppAnswers ==
    {ans \in GatewayAnswers :
        /\ ans.hist = <<>>
        /\ ans.raise_at = "info" \/ (\E p \in GatewayPrices : ans.info = InfoQuote(p))}

InitApp == Init

NextApp ==
    \/ \E name \in Names : App_create_portfolio(name)
    \/ \E name \in Names : App_delete_portfolio(name)
    \/ \E name \in Names, symbol \in Symbols, shares \in SharesIn,
          avg_price \in AvgPricesIn, ans \in AppAnswers :
            App_add_stock(name, symbol, shares, avg_price, ans)
    \/ \E name \in Names, symbol \in Symbols, shares \in SharesIn,
          avg_price \in AvgPricesIn :
            App_update_stock(name, symbol, shares, avg_price)
    \/ \E name \in Names, symbol \in Symbols : App_remove_stock(name, symbol)
    \/ Restart

SpecApp == InitApp /\ [][NextApp]_vars

\* C23: every change triggered from the page goes through the
\* PortfolioManager, so after any sequence of actions on the page the
\* portfolios reloaded from the backing store equal the portfolios in
\* memory that the page shows.
C23_PageChangesPersisted == Content(Reloaded) = Content(portfolios)

----------------------------------------------------------------------------
(* Claims about what the operations keep *)

\* Every holding there is: in memory, in the file and in the tables.
PositionsOf(data) ==
    UNION {{data[i][2].stocks[j][2] : j \in DOMAIN data[i][2].stocks} :
             i \in DOMAIN data}
AllPositions ==
    PositionsOf(portfolios)
    \cup (IF portfolios_file # None THEN PositionsOf(portfolios_file[1]) ELSE {})
    \cup BagToSet(db_stocks)

PositiveHoldings ==
    \A h \in AllPositions : RatLess(Zero, h.shares) /\ RatLess(Zero, h.avg_price)

\* x lies between a and c, whichever of the two is the smaller.
Between(x, a, c) ==
    \/ ~RatLess(x, a) /\ ~RatLess(c, x)
    \/ ~RatLess(x, c) /\ ~RatLess(a, x)

\* An add_stock on a symbol already held leaves its average between the
\* average before and the price added, in memory and in the tables.
MergeBetween ==
    Did("add_stock") =>
        LET n == last'.args.name
            s == last'.args.symbol
            c == last'.args.avg_price
            row == StoredPosition(db_portfolios, db_stocks, n, s)
        IN /\ Holds(portfolios, n, s) =>
                  Between(Position(portfolios', n, s).avg_price,
                          Position(portfolios, n, s).avg_price, c)
           /\ (use_supabase /\ row # None /\ last'.wrote = "ok") =>
                  Between(StoredPosition(db_portfolios', db_stocks', n, s)[1]
                              .avg_price,
                          row[1].avg_price, c)

----------------------------------------------------------------------------
(* The transaction of a backend call *)

\* a session whose statements take effect one by one
rollback_Autocommitted(committed, pending) == pending

\* session.rollback() in the except clause of every backend method: the
\* statements of the session were not committed, the tables are those of
\* before the call.
rollback(committed, pending) == committed

\* A backend method: the statements up to the one that raised left pending
\* in the session; complete is what the method does when nothing raises.
Transaction(committed, pending, raised, complete) ==
    IF raised
    THEN LET tables == rollback(committed, pending) IN
         [ok |-> FALSE, dbp |-> tables.dbp, dbs |-> tables.dbs]
    ELSE complete

Tables(dbp, dbs) == [dbp |-> dbp, dbs |-> dbs]

\* What the session of a backend method holds after done of its writing
\* statements, complete being the method run to its end.  save_portfolio
\* first clears the stocks of an existing portfolio, or inserts the
\* portfolio, and then adds the stocks one by one; the other methods have
\* one writing statement before the commit.
Pending(committed, complete, done) ==
    IF done = 0 THEN committed ELSE Tables(complete.dbp, complete.dbs)
SavePending(portfolio_name, portfolio_data, done) ==
    IF done = 0 THEN Tables(db_portfolios, db_stocks)
    ELSE LET w == SM_save_portfolio(db_portfolios, db_stocks, portfolio_name,
                      [portfolio_data EXCEPT !.stocks = SubSeq(@, 1, done - 1)],
                      now, FALSE)
         IN Tables(w.dbp, w.dbs)

\* A call of a backend method that raises after done writing statements,
\* or runs to its end.
Called(op, args, pending, raised, complete) ==
    LET r == Transaction(Tables(db_portfolios, db_stocks), pending, raised,
                         complete)
    IN /\ ops < MaxOps
       /\ ops' = ops + 1
       /\ db_portfolios' = r.dbp
       /\ db_stocks' = r.dbs
       /\ last' = [op |-> op, args |-> args,
                   ret |-> IF r.ok THEN "True" ELSE "False",
                   wrote |-> IF ~raised THEN (IF r.ok THEN "ok" ELSE "none")
                             ELSE IF pending = Tables(db_portfolios, db_stocks)
                                  THEN "nothing pending" ELSE "pending"]
       /\ UNCHANGED <<portfolios, portfolios_file, backup_file, use_supabase,
                      lots, view, chart, clockVars, cacheVars>>

\* The portfolio_data save_portfolio is called with.
SavedData ==
    {[stocks |-> <<>>, created_date |-> Datetime(0)],
     [stocks |-> <<<<"Y", StoredHolding(Num(1), Num(4))>>,
                   <<"X", StoredHolding(Num(2), Num(2))>>>>,
      created_date |-> Datetime(0)]}

SaveCalled(portfolio_name, portfolio_data) ==
    \E raised \in BOOLEAN, done \in 0..(Len(portfolio_data.stocks) + 1) :
        Called("SM.save_portfolio", [NoArgs EXCEPT !.name = portfolio_name],
               SavePending(portfolio_name, portfolio_data, done), raised,
               SM_save_portfolio(db_portfolios, db_stocks, portfolio_name,
                                 portfolio_data, now, FALSE))

DeleteCalled(portfolio_name) ==
    \E raised \in BOOLEAN, done \in {0, 1} :
        LET complete == SM_delete_portfolio(db_portfolios, db_stocks,
                                            portfolio_name, FALSE)
        IN Called("SM.delete_portfolio", [NoArgs EXCEPT !.name = portfolio_name],
                  Pending(Tables(db_portfolios, db_stocks), complete, done),
                  raised, complete)

AddCalled(portfolio_name, symbol, shares, avg_price) ==
    \E raised \in BOOLEAN, done \in {0, 1} :
        LET complete == SM_add_stock(db_portfolios, db_stocks, portfolio_name,
                                     symbol, shares, avg_price, now, FALSE)
        IN Called("SM.add_stock",
                  [name |-> portfolio_name, symbol |-> symbol,
                   shares |-> shares, avg_price |-> avg_price],
                  Pending(Tables(db_portfolios, db_stocks), complete, done),
                  raised, complete)

RemoveCalled(portfolio_name, symbol) ==
    \E raised \in BOOLEAN, done \in {0, 1} :
        LET complete == SM_remove_stock(db_portfolios, db_stocks,
                                        portfolio_name, symbol, FALSE)
        IN Called("SM.remove_stock",
                  [NoArgs EXCEPT !.name = portfolio_name, !.symbol = symbol],
                  Pending(Tables(db_portfolios, db_stocks), complete, done),
                  raised, complete)

UpdateCalled(portfolio_name, symbol, shares, avg_price) ==
    \E raised \in BOOLEAN, done \in {0, 1} :
        LET complete == SM_update_stock(db_portfolios, db_stocks,
                                        portfolio_name, symbol, shares,
                                        avg_price, FALSE)
        IN Called("SM.update_stock",
                  [name |-> portfolio_name, symbol |-> symbol,
                   shares |-> shares, avg_price |-> avg_price],
                  Pending(Tables(db_portfolios, db_stocks), complete, done),
                  raised, complete)

InitTransactions ==
    /\ now = 0
    /\ GwInit
    /\ use_supabase = TRUE
    /\ \E stored \in StoredAtStart : StoreInitFrom(stored)

NextTransactions ==
    \/ \E name \in Names, data \in SavedData : SaveCalled(name, data)
    \/ \E name \in Names : DeleteCalled(name)
    \/ \E name \in Names, symbol \in Symbols, shares \in SharesIn,
          avg_price \in AvgPricesIn : AddCalled(name, symbol, shares, avg_price)
    \/ \E name \in Names, symbol \in Symbols : RemoveCalled(name, symbol)
    \/ \E name \in Names, symbol \in Symbols, shares \in SharesIn,
          avg_price \in AvgPricesIn :
            UpdateCalled(name, symbol, shares, avg_price)

SpecTransactions == InitTransactions /\ [][NextTransactions]_vars

\* C25: a call of save_portfolio, add_stock, remove_stock, update_stock
\* or delete_portfolio of the relational backend that fails part-way is
\* rolled back: the portfolios and stocks persisted are exactly those of
\* before the call, a portfolio that save_portfolio found keeps its stocks,
\* and the call returns False; what a failed call leaves is what the store
\* takes a failed call to leave.
C25_FailedCallRolledBack ==
    [][Mutation =>
          /\ last'.ret \in {"True", "False"}
          /\ last'.wrote \in {"pending", "nothing pending"} =>
                /\ last'.ret = "False"
                /\ db_portfolios' = db_portfolios
                /\ db_stocks' = db_stocks
                /\ \A n \in Names : StoredHoldings(n)' = StoredHoldings(n)
                /\ LET w == DbFailed(db_portfolios, db_stocks) IN
                   Tables(db_portfolios', db_stocks') = Tables(w.dbp, w.dbs)]_vars

\* C25 witness: save_portfolio raised after it had cleared the stocks of a
\* portfolio that holds some, and the portfolio still holds them.
C25_Witness ==
    /\ last.op = "SM.save_portfolio"
    /\ last.wrote = "pending"
    /\ last.ret = "False"
    /\ StoredHoldings(last.args.name) # {}

----------------------------------------------------------------------------
(* Claims about the flat file *)

\* C26: in flat-file mode save_portfolios leaves the portfolios in memory
\* as they were: created_date and last_updated keep their value and stay
\* timestamps, so that a second save_portfolios succeeds as well.
C26_SaveKeepsSession ==
    ~use_supabase =>
        LET saved == PM_save_portfolios(portfolios, portfolios_file)
            again == PM_save_portfolios(saved.portfolios, saved.file)
        IN /\ saved.portfolios = portfolios
           /\ again.ok
           /\ again.portfolios = portfolios

\* The portfolios the flat file holds.
FileHoldings(file) ==
    Holdings(IF file # None THEN PM_parse_portfolios(file[1]) ELSE <<>>)

\* C27: in flat-file mode, whenever create_portfolio, delete_portfolio,
\* add_stock, remove_stock or update_stock returns True, the file holds
\* the portfolios, symbols, shares and avg_price that are in memory after
\* the call, for the first operation of a session and for every later one.
C27_TrueMeansPersisted ==
    [][(Mutation /\ ~use_supabase /\ last'.ret = "True") =>
          FileHoldings(portfolios_file') = Holdings(portfolios')]_vars

----------------------------------------------------------------------------
(* Claims about memory and the tables *)

\* The tables hold one portfolio row per name and one stock row per
\* portfolio and symbol.
OneRowEach ==
    /\ \A p, q \in db_portfolios : p.name = q.name => p = q
    /\ \A r \in BagToSet(db_stocks) : db_stocks[r] = 1
    /\ \A r, q \in BagToSet(db_stocks) :
           (r.portfolio_id = q.portfolio_id /\ r.symbol = q.symbol) => r = q

MemoryIsTables ==
    use_supabase =>
        /\ Holdings(SM_load_portfolios(db_portfolios, db_stocks))
              = Holdings(portfolios)
        /\ OneRowEach

\* An add_stock on a held symbol adds its shares once, in memory and in
\* the row.
MergedOnce ==
    (Did("add_stock") /\ use_supabase
        /\ Holds(portfolios, last'.args.name, last'.args.symbol)) =>
        LET n == last'.args.name
            s == last'.args.symbol
            sum == RatAdd(Position(portfolios, n, s).shares, last'.args.shares)
        IN /\ Position(portfolios', n, s).shares = sum
           /\ StoredPosition(db_portfolios', db_stocks', n, s)
                 = Some([shares |-> sum,
                         avg_price |-> Position(portfolios', n, s).avg_price])

\* C28: in relational mode, from a memory that equals the tables, after
\* any sequence of create_portfolio, delete_portfolio, add_stock,
\* remove_stock and update_stock whose backend writes succeed, memory and
\* tables hold the same names, symbols (one stock row per portfolio and
\* symbol at most), shares and avg_price; a repeated add_stock is merged
\* once in each.
C28_MemoryIsTables == []MemoryIsTables /\ [][MergedOnce]_vars

\* C28 witness: an add_stock of a held symbol was written, and memory and
\* the row hold the same position, of more shares than one lot adds.
C28_Witness ==
    /\ use_supabase
    /\ last.op = "add_stock"
    /\ last.wrote = "ok"
    /\ Holds(portfolios, last.args.name, last.args.symbol)
    /\ \A shares \in SharesIn :
           /\ RatLess(shares, Position(portfolios, last.args.name,
                                       last.args.symbol).shares)
           /\ StoredPosition(db_portfolios, db_stocks, last.args.name,
                             last.args.symbol)
                 = HeldPosition(portfolios, last.args.name, last.args.symbol)

----------------------------------------------------------------------------
(* Lookups of one symbol over a day *)

LookupSymbols == {"X"}
\* The instants of the calls: at first, when a cache entry written at
\* first has just expired, and a day after the first.
LookupInstants == {0, cache_duration, SecondsPerDay}

Later ==
    \E t \in LookupInstants :
        /\ now < t
        /\ now' = t
        /\ UNCHANGED <<cacheVars, storeVars>>

InitLookup == InitCache

NextLookup ==
    \/ \E symbol \in LookupSymbols, ans \in ProviderAnswers :
           GetCurrentPriceOn(symbol, ans)
    \/ \E symbol \in LookupSymbols, period \in Periods :
           GetHistoricalDataCall(symbol, period)
    \/ Later

SpecLookup == InitLookup /\ [][NextLookup]_vars

LookupOps == {"get_current_price", "get_historical_data"}

\* A lookup that yields no data leaves both caches as they were.
NoDataLeavesCaches ==
    (gw'.op \in LookupOps /\ gw'.ret = None) =>
        (price_cache' = price_cache /\ data_cache' = data_cache)

\* After a lookup that yielded no data, a call for the same key asks the
\* provider and returns what it has.
FailedLookupRetried ==
    /\ (gw.op = "get_current_price" /\ gw.ret = None) =>
           \A ans \in ProviderAnswers :
               Offered(ans) # None =>
                   LET r == GetCurrentPrice(price_cache, gw.symbol, now, ans)
                   IN r.queried /\ r.ret = Offered(ans)
    /\ (gw.op = "get_historical_data" /\ gw.ret = None) =>
           \A ans \in HistoryAnswers, period \in Periods :
               (~ans.raise /\ ans.rows # <<>>) =>
                   GetHistoricalData(data_cache, gw.symbol, period, now, ans).ret
                       = Some(reset_index(ans.rows))

\* C29: a failed lookup is never cached: when get_current_price(s) or
\* get_historical_data(s, period) yields no data, no cache entry is created
\* or overwritten for that key, a value cached before is kept as it was,
\* and the next call for the key queries the provider again and returns
\* its data as soon as the provider has some.
C29_FailedLookupNotCached == [][NoDataLeavesCaches]_vars /\ []FailedLookupRetried

\* The same, for calls made less than a day after the first.
FailedLookupRetriedWithinDay ==
    [][NoDataLeavesCaches]_vars /\ [](now < SecondsPerDay => FailedLookupRetried)

----------------------------------------------------------------------------
(* add_stock with any shares and price *)

AnySharesIn == {Num(0 - 1), Num(0), Num(1)}
AnyAvgPricesIn == {Num(0), Num(2)}

InitAnyLot == Init

NextAnyLot ==
    \/ \E name \in Names, symbol \in Symbols, shares \in AnySharesIn,
          avg_price \in AnyAvgPricesIn :
            AddStock(name, symbol, shares, avg_price)
    \/ Restart

SpecAnyLot == InitAnyLot /\ [][NextAnyLot]_vars

\* C30: PortfolioManager.add_stock never raises and never divides by
\* zero: for every shares and avg_price, those for which existing + added
\* shares is 0 included, the call returns True or False, and when it cannot
\* compute the merged average it leaves the holding and the persisted
\* state as they were.
C30_AddStockNeverRaises ==
    [][Did("add_stock") =>
          /\ last'.ret \in {"True", "False"}
          /\ (/\ Holds(portfolios, last'.args.name, last'.args.symbol)
              /\ RatAdd(Position(portfolios, last'.args.name,
                                 last'.args.symbol).shares,
                        last'.args.shares) = Zero) =>
                 /\ portfolios' = portfolios
                 /\ portfolios_file' = portfolios_file
                 /\ db_portfolios' = db_portfolios
                 /\ db_stocks' = db_stocks]_vars

====
